---- MODULE Spec2Model ----
(***************************************************************************)
(* A model of the account transaction view of the desktop client           *)
(* (packages/desktop-client/src/components/accounts/Account.jsx).          *)
(*                                                                         *)
(* The class component AccountInternal is the variable `this` (its         *)
(* instance fields and its React state), its props are `props`, the paged  *)
(* query runners it creates live in `runners`, and every suspension point  *)
(* of the code (an awaited data-service call, the debounce timer, a        *)
(* runner's fetch) is a separate step of the model.                        *)
(*                                                                         *)
(* React batches setState: inside one handler run this.state keeps its old *)
(* value, the queued updates are merged when the handler returns, and the  *)
(* setState callbacks run after the merge.  Handlers are operators over a  *)
(* record `w` of the mutable world; Flush applies the queued updates.      *)
(***************************************************************************)
EXTENDS Integers, Sequences, FiniteSets, TLC

VARIABLES
  phase,     \* lifecycle of the component: "mounting", "mounted", "unmounted"
  props,     \* props of AccountInternal read by the model
  this,      \* AccountInternal: [paged, rootQuery, currentQuery, state]
  runners,   \* the PagedQuery objects still referenced, by id
  timer,     \* the debounce timer of onSearchDone is pending
  sends,     \* applyFilters calls suspended at make-filters-from-conditions,
             \* each with its argument and the search text it was called under
  awaiting,  \* runner callbacks suspended at await this.calculateBalances()
  db,        \* the transactions table of the data service
  task,      \* the async handler of the mutation coordinator in progress
  requests,  \* transactions-batch-update requests received by the data service
  events     \* number of user events so far (bounds the exploration)

vars == <<phase, props, this, runners, timer, sends, awaiting, db, task,
          requests, events>>

-----------------------------------------------------------------------------
\* Bounds of the exploration.

MaxEvents == 2
MaxSends == 2

-----------------------------------------------------------------------------
\* Values.

None == {}
Some(x) == {x}
IsSome(o) == o /= {}
The(o) == CHOOSE x \in o : TRUE

Accounts == {"a1", "a2"}
SearchTexts == {"", "rent"}
PlainConds == {"c1", "c2"}
CustomConds == {"k1"}
Conds == PlainConds \cup CustomConds
Fields == {"date", "payee"}
Dirs == {"asc", "desc"}

Range(s) == {s[i] : i \in DOMAIN s}

RECURSIVE SeqFilter(_, _)
SeqFilter(s, S) ==
  IF s = <<>> THEN <<>>
  ELSE IF Head(s) \in S THEN <<Head(s)>> \o SeqFilter(Tail(s), S)
  ELSE SeqFilter(Tail(s), S)

RemoveAt(s, i) == SubSeq(s, 1, i - 1) \o SubSeq(s, i + 1, Len(s))

Merge(s, p) == [k \in DOMAIN s |-> IF k \in DOMAIN p THEN p[k] ELSE s[k]]

-----------------------------------------------------------------------------
\* The query descriptor (loot-core shared/query): filter and orderBy return a
\* new descriptor with the expression appended.

Query(acct) == [acct |-> acct, filters |-> <<>>, order |-> <<>>]

QFilter(query, expr) == [query EXCEPT !.filters = Append(@, expr)]

QOrderBy(query, field, dir) ==
  [query EXCEPT !.order = Append(@, <<field, dir>>)]

\* queries.makeTransactionSearchQuery(currentQuery, search, dateFormat)
makeTransactionSearchQuery(query, search) ==
  QFilter(query, [kind |-> "search", text |-> search])

\* The answer of make-filters-from-conditions for one condition, and the
\* literal `filter` carried by a condition with customName.
Translated(c) == [cond |-> c, how |-> "translated"]
Literal(c) == [cond |-> c, how |-> "literal"]

RECURSIVE MapTranslated(_)
MapTranslated(s) ==
  IF s = <<>> THEN <<>> ELSE <<Translated(Head(s))>> \o MapTranslated(Tail(s))

RECURSIVE MapLiteral(_)
MapLiteral(s) ==
  IF s = <<>> THEN <<>> ELSE <<Literal(Head(s))>> \o MapLiteral(Tail(s))

\* The rows a query returns: the rows of its account, newest first, each row
\* object tagged with the query that fetched it.
RECURSIVE RowsOf(_, _)
RowsOf(d, query) ==
  IF d = <<>> THEN <<>>
  ELSE LET rest == RowsOf(Tail(d), query)
       IN IF Head(d).account = query.acct
          THEN <<[id |-> Head(d).id, q |-> query]>> \o rest
          ELSE rest

-----------------------------------------------------------------------------
\* The paged query runner (loot-core client/query-helpers).

\* The id of the next runner object: the least one not in use.
NewId(rs) ==
  LET free == {i \in 1..(Cardinality(DOMAIN rs) + 1) : i \notin DOMAIN rs}
  IN CHOOSE i \in free : \A j \in free : i <= j

\* pagedQuery(query, onData, opts): a new subscribed runner whose first fetch
\* is in flight.  isFiltered is what the callback given to it closes over.
pagedQuery(rs, id, query, isFiltered) ==
  [i \in DOMAIN rs \cup {id} |->
     IF i = id
     THEN [query |-> query, isFiltered |-> isFiltered, subscribed |-> TRUE,
           inflight |-> TRUE]
     ELSE rs[i]]

\* paged.unsubscribe(): idempotent; the runner delivers nothing afterwards.
unsubscribe(rs, id) ==
  [rs EXCEPT ![id] = [@ EXCEPT !.subscribed = FALSE, !.inflight = FALSE]]

\* paged.run(): fetch again with the runner's query.
run(rs, id) ==
  [rs EXCEPT ![id] = [@ EXCEPT !.inflight = @ \/ rs[id].subscribed]]

-----------------------------------------------------------------------------
\* AccountInternal.

NoSort == [field |-> "", ascDesc |-> "", prevField |-> "", prevAscDesc |-> ""]
NoFilterId == [id |-> "", status |-> ""]

\* constructor
InitialState(showBalances) ==
  [search |-> "", filters |-> <<>>, loading |-> TRUE, workingHard |-> FALSE,
   reconcileAmount |-> None, transactions |-> <<>>, transactionCount |-> 0,
   transactionsFiltered |-> FALSE, showBalances |-> showBalances,
   balances |-> None, filterId |-> NoFilterId, conditionsOp |-> "and",
   sort |-> NoSort]

getField(field) ==
  CASE field = "account" -> "account.name"
    [] field = "payee" -> "payee.name"
    [] field = "category" -> "category.name"
    [] field = "payment" -> "amount"
    [] field = "deposit" -> "amount"
    [] OTHER -> field

\* this.setState(patch, callback): queued until the handler returns.
setState(w, patch, cb) ==
  [w EXCEPT !.updates = Append(@, [patch |-> patch, cb |-> cb])]

makeRootQuery(w) == Query(w.props.accountId)

updateQueryKeepingOld(w, query, isFiltered) ==
  [w EXCEPT !.runners = pagedQuery(w.runners, NewId(w.runners), query,
                                   isFiltered),
            !.this.paged = NewId(w.runners)]

updateQuery(w, query, isFiltered) ==
  LET rs == IF w.this.paged /= 0
            THEN unsubscribe(w.runners, w.this.paged)
            ELSE w.runners
  IN [w EXCEPT !.runners = pagedQuery(rs, NewId(rs), query, isFiltered),
               !.this.paged = NewId(rs)]

fetchTransactions(w) ==
  LET query == makeRootQuery(w)
      w1 == [w EXCEPT !.this.rootQuery = query, !.this.currentQuery = query]
  IN updateQuery(w1, query, FALSE)

onSearchLeadingEdge(w, value) ==
  setState(updateQuery(w, makeTransactionSearchQuery(w.this.currentQuery,
                                                     value), TRUE),
           [search |-> value], "onSearchDone")

\* onSearch = value => ...; onSearchDone is debounced, so the setState
\* callback only (re)starts the timer.
onSearch(w, value) ==
  setState([w EXCEPT !.runners = unsubscribe(@, w.this.paged)],
           [search |-> value], "onSearchDone")

\* The body of onSearchDone, run when the debounce timer fires.
\* onSearchDone flagging the runner by the filters whatever the text.
onSearchDoneFlagByFilters(w) ==
  IF w.this.state.search = ""
  THEN updateQuery(w, w.this.currentQuery, Len(w.this.state.filters) > 0)
  ELSE updateQuery(w,
         makeTransactionSearchQuery(w.this.currentQuery, w.this.state.search),
         Len(w.this.state.filters) > 0)

onSearchDone(w) ==
  IF w.this.state.search = ""
  THEN updateQuery(w, w.this.currentQuery, Len(w.this.state.filters) > 0)
  ELSE updateQuery(w,
         makeTransactionSearchQuery(w.this.currentQuery, w.this.state.search),
         TRUE)

canCalculateBalance(w) ==
  /\ w.props.accountId \in w.props.accounts
  /\ w.this.state.search = ""
  /\ Len(w.this.state.filters) = 0
  /\ \/ w.this.state.sort = NoSort
     \/ /\ w.this.state.sort.field = "date"
        /\ w.this.state.sort.ascDesc = "desc"

\* applySort() as applyFilters calls it: no argument, the sort of this.state.
applySortFromState(w) ==
  LET sort == w.this.state.sort
      sortField == getField(sort.field)
      sortPrevField == getField(sort.prevField)
      q1 == QOrderBy(w.this.currentQuery, sortField, sort.ascDesc)
      q2 == IF sortPrevField /= ""
            THEN QOrderBy(q1, sortPrevField, sort.prevAscDesc)
            ELSE q1
      w1 == [w EXCEPT !.this.currentQuery = q2]
  IN updateQuery(w1, q2, Len(w.this.state.filters) > 0)

\* The data service's make-filters-from-conditions: one translated filter
\* for each condition it is sent.
makeFiltersFromConditions(conditions) == MapTranslated(conditions)

\* applyFilters sending every condition for translation, the ones with a
\* customName too.
applyFiltersSendingAll(w, conditions) ==
  IF Len(conditions) > 0
  THEN [w EXCEPT !.sends = Append(@, [conditions |-> conditions,
                                      sent |-> conditions,
                                      search |-> w.this.state.search])]
  ELSE LET w1 == setState(w, [transactions |-> <<>>, transactionCount |-> 0,
                              filters |-> conditions], "fetchTransactions")
       IN IF w1.this.state.sort /= NoSort
          THEN applySortFromState(w1)
          ELSE w1

\* applyFilters leaving the displayed transactions and their count as they
\* are when the list is empty.
applyFiltersKeepingRows(w, conditions) ==
  IF Len(conditions) > 0
  THEN [w EXCEPT !.sends = Append(@, [conditions |-> conditions,
                                      sent |-> SeqFilter(conditions,
                                                         PlainConds),
                                      search |-> w.this.state.search])]
  ELSE LET w1 == setState(w, [filters |-> conditions], "fetchTransactions")
       IN IF w1.this.state.sort /= NoSort
          THEN applySortFromState(w1)
          ELSE w1

\* applyFilters(conditions) up to its first suspension: with conditions it
\* stops at the await of make-filters-from-conditions, to which it has sent
\* the conditions without customName (`sent`); without, it runs to its end.
applyFilters(w, conditions) ==
  IF Len(conditions) > 0
  THEN [w EXCEPT !.sends = Append(@, [conditions |-> conditions,
                                      sent |-> SeqFilter(conditions,
                                                         PlainConds),
                                      search |-> w.this.state.search])]
  ELSE LET w1 == setState(w, [transactions |-> <<>>, transactionCount |-> 0,
                              filters |-> conditions], "fetchTransactions")
       IN IF w1.this.state.sort /= NoSort
          THEN applySortFromState(w1)
          ELSE w1

\* applyFilters(conditions) after make-filters-from-conditions has answered
\* with `filters`.
applyFiltersResumeOldOp(w, conditions, filters, op) ==
  LET customFilters == MapLiteral(SeqFilter(conditions, CustomConds))
      w1 == [w EXCEPT !.this.currentQuery =
               QFilter(w.this.rootQuery,
                       [kind |-> "conds", op |-> op,
                        args |-> filters \o customFilters])]
      w2 == setState(w1, [filters |-> conditions], "updateQueryFiltered")
  IN IF w2.this.state.sort /= NoSort
     THEN applySortFromState(w2)
     ELSE w2

applyFiltersResume(w, conditions, filters) ==
  applyFiltersResumeOldOp(w, conditions, filters,
    IF w.this.state.conditionsOp = "or" THEN "$or" ELSE "$and")

applySortAppending(w, field, ascDesc, prevField, prevAscDesc) ==
  LET sort == w.this.state.sort
      filters == w.this.state.filters
      sortField == getField(field)
      sortPrevField == getField(IF prevField = "" THEN sort.prevField
                                ELSE prevField)
      sortPrevAscDesc == IF prevField = "" THEN sort.prevAscDesc
                         ELSE prevAscDesc
      wf == IF Len(filters) > 0 THEN applyFilters(w, filters) ELSE w
      w1 == [wf EXCEPT !.this.currentQuery =
               QOrderBy(wf.this.currentQuery, sortField, ascDesc)]
      w2 == IF sortPrevField /= ""
            THEN [w1 EXCEPT !.this.currentQuery =
                    QOrderBy(w1.this.currentQuery, sortPrevField,
                             sortPrevAscDesc)]
            ELSE w1
  IN updateQuery(w2, w2.this.currentQuery, Len(w.this.state.filters) > 0)

\* applySort(field, ascDesc, prevField, prevAscDesc) as onSort calls it.
applySort(w, field, ascDesc, prevField, prevAscDesc) ==
  LET sort == w.this.state.sort
      filters == w.this.state.filters
      sortField == getField(field)
      sortPrevField == getField(IF prevField = "" THEN sort.prevField
                                ELSE prevField)
      sortPrevAscDesc == IF prevField = "" THEN sort.prevAscDesc
                         ELSE prevAscDesc
      w1 == IF Len(filters) > 0
            THEN LET wf == applyFilters(w, filters)
                 IN [wf EXCEPT !.this.currentQuery =
                       QOrderBy(wf.this.currentQuery, sortField, ascDesc)]
            ELSE [w EXCEPT !.this.currentQuery =
                    QOrderBy(w.this.rootQuery, sortField, ascDesc)]
      w2 == IF sortPrevField /= ""
            THEN [w1 EXCEPT !.this.currentQuery =
                    QOrderBy(w1.this.currentQuery, sortPrevField,
                             sortPrevAscDesc)]
            ELSE w1
  IN updateQuery(w2, w2.this.currentQuery, Len(w.this.state.filters) > 0)

onSortKeepingPrev(w, headerClicked, ascDesc) ==
  LET sort == w.this.state.sort
      keep == headerClicked = sort.field \/ sort.prevField /= ""
      prevField == IF keep THEN sort.prevField ELSE sort.field
      prevAscDesc == IF keep THEN sort.prevAscDesc ELSE sort.ascDesc
      w1 == setState(w,
              [sort |-> [field |-> headerClicked, ascDesc |-> ascDesc,
                         prevField |-> prevField,
                         prevAscDesc |-> prevAscDesc]], "")
      w2 == applySort(w1, headerClicked, ascDesc, prevField, prevAscDesc)
  IN IF w.this.state.search /= ""
     THEN onSearch(w2, w.this.state.search)
     ELSE w2

onSortAlwaysShifting(w, headerClicked, ascDesc) ==
  LET sort == w.this.state.sort
      w1 == setState(w,
              [sort |-> [field |-> headerClicked, ascDesc |-> ascDesc,
                         prevField |-> sort.field,
                         prevAscDesc |-> sort.ascDesc]], "")
      w2 == applySort(w1, headerClicked, ascDesc, sort.field, sort.ascDesc)
  IN IF w.this.state.search /= ""
     THEN onSearch(w2, w.this.state.search)
     ELSE w2

onSort(w, headerClicked, ascDesc) ==
  LET sort == w.this.state.sort
      same == headerClicked = sort.field
      prevField == IF same THEN sort.prevField ELSE sort.field
      prevAscDesc == IF same THEN sort.prevAscDesc ELSE sort.ascDesc
      w1 == setState(w,
              [sort |-> [field |-> headerClicked, ascDesc |-> ascDesc,
                         prevField |-> prevField,
                         prevAscDesc |-> prevAscDesc]], "")
      w2 == applySort(w1, headerClicked, ascDesc, prevField, prevAscDesc)
  IN IF w.this.state.search /= ""
     THEN onSearch(w2, w.this.state.search)
     ELSE w2

\* onCondOpChange without its call of applyFilters.
onCondOpChangeNotReapplying(w, value, filters) ==
  LET w1 == setState(w, [conditionsOp |-> value], "")
      w2 == setState(w1, [filterId |-> [w.this.state.filterId
                                          EXCEPT !.status = "changed"]], "")
  IN IF w.this.state.search /= ""
     THEN onSearch(w2, w.this.state.search)
     ELSE w2

onCondOpChange(w, value, filters) ==
  LET w1 == setState(w, [conditionsOp |-> value], "")
      w2 == setState(w1, [filterId |-> [w.this.state.filterId
                                          EXCEPT !.status = "changed"]], "")
      w3 == applyFilters(w2, filters)
  IN IF w.this.state.search /= ""
     THEN onSearch(w3, w.this.state.search)
     ELSE w3

onClearFilters(w) ==
  LET w1 == setState(w, [conditionsOp |-> "and"], "")
      w2 == setState(w1, [filterId |-> NoFilterId], "")
      w3 == applyFilters(w2, <<>>)
  IN IF w.this.state.search /= ""
     THEN onSearch(w3, w.this.state.search)
     ELSE w3

onDeleteFilter(w, filter) ==
  LET w1 == applyFilters(w, SeqFilter(w.this.state.filters,
                                      Conds \ {filter}))
      w2 == IF Len(w.this.state.filters) = 1
            THEN setState(setState(w1, [filterId |-> NoFilterId], ""),
                          [conditionsOp |-> "and"], "")
            ELSE setState(w1, [filterId |-> [w.this.state.filterId
                                               EXCEPT !.status = "changed"]],
                          "")
  IN IF w.this.state.search /= ""
     THEN onSearch(w2, w.this.state.search)
     ELSE w2

\* onApplyFilter(cond) for a condition without `conditions` (not a saved
\* filter).
onApplyFilter(w, cond) ==
  LET filters == IF cond \in CustomConds
                 THEN SeqFilter(w.this.state.filters, Conds \ {cond})
                 ELSE w.this.state.filters
      w1 == setState(w, [filterId |-> [w.this.state.filterId
                                         EXCEPT !.status = "changed"]], "")
      w2 == applyFilters(w1, Append(filters, cond))
  IN IF w.this.state.search /= ""
     THEN onSearch(w2, w.this.state.search)
     ELSE w2

\* onMenuSelect('remove-sorting'): the whole body is the setState callback.
removeSortingCallback(w) ==
  LET filters == w.this.state.filters
      w1 == IF Len(filters) > 0
            THEN applyFilters(w, filters)
            ELSE fetchTransactions(w)
  IN IF w.this.state.search /= ""
     THEN onSearch(w1, w.this.state.search)
     ELSE w1

\* refetchTransactions: this.paged?.run()
refetchTransactions(w) ==
  IF w.this.paged /= 0
  THEN [w EXCEPT !.runners = run(@, w.this.paged)]
  ELSE w

\* The callback's state without the reset of workingHard.
PageStateStillWorking(data, count, isFiltered, balances) ==
  [transactions |-> data, transactionCount |-> count,
   transactionsFiltered |-> isFiltered, loading |-> FALSE,
   balances |-> balances]

\* The state the runner callback of updateQuery sets.
PageState(data, count, isFiltered, balances) ==
  [transactions |-> data, transactionCount |-> count,
   transactionsFiltered |-> isFiltered, loading |-> FALSE,
   workingHard |-> FALSE, balances |-> balances]

\* The callback updateQuery gives to pagedQuery, called by runner r with its
\* page data.  The argument of setState is evaluated first: with showBalances
\* and canCalculateBalance, calculateBalances awaits a balance query and the
\* callback is suspended with everything it has read so far.
onData(w, r, data) ==
  LET count == Len(data)
      isFiltered == w.runners[r].isFiltered
  IN IF w.this.state.showBalances /\ canCalculateBalance(w)
     THEN [w EXCEPT !.awaiting = Append(@,
             [runner |-> r, data |-> data, count |-> count,
              isFiltered |-> isFiltered,
              query |-> w.runners[w.this.paged].query])]
     ELSE setState(w, PageState(data, count, isFiltered, None), "")

\* The callback resumed with the answer of its balance query.
onDataResume(w, a) ==
  setState(w, PageState(a.data, a.count, a.isFiltered,
                        Some([q |-> a.query])), "")

UNSAFE_componentWillReceiveProps(w) ==
  setState(w, [loading |-> TRUE, search |-> "",
               showBalances |-> w.props.showBalances, balances |-> None,
               reconcileAmount |-> None], "fetchTransactions")

\* componentDidUpdate when the account id has changed.
componentDidUpdate(w) ==
  setState(w, [sort |-> NoSort, search |-> "", filters |-> <<>>], "")

componentWillUnmount(w) ==
  IF w.this.paged /= 0
  THEN [w EXCEPT !.runners = unsubscribe(@, w.this.paged)]
  ELSE w

\* A setState callback, run after the queued updates were merged.
RunCallback(w, cb) ==
  CASE cb = "onSearchDone" -> [w EXCEPT !.timer = TRUE]
    [] cb = "fetchTransactions" -> fetchTransactions(w)
    [] cb = "updateQueryFiltered" -> updateQuery(w, w.this.currentQuery, TRUE)
    [] cb = "removeSorting" -> removeSortingCallback(w)
    [] OTHER -> w

RECURSIVE MergeAll(_, _)
MergeAll(st, ups) ==
  IF ups = <<>> THEN st ELSE MergeAll(Merge(st, Head(ups).patch), Tail(ups))

RECURSIVE RunCallbacks(_, _)
RunCallbacks(w, ups) ==
  IF ups = <<>> THEN w
  ELSE RunCallbacks(RunCallback(w, Head(ups).cb), Tail(ups))

\* The end of a handler run: React merges the queued updates in order, then
\* runs their callbacks in order; updates queued by a callback follow.
RECURSIVE Flush(_)
Flush(w) ==
  IF w.updates = <<>> THEN w
  ELSE LET w1 == [w EXCEPT !.this.state = MergeAll(@, w.updates),
                           !.updates = <<>>]
       IN Flush(RunCallbacks(w1, w.updates))

-----------------------------------------------------------------------------
\* The world a handler runs in, and its commit to the variables.

World ==
  [this |-> this, props |-> props, runners |-> runners, timer |-> timer,
   sends |-> sends, awaiting |-> awaiting, updates |-> <<>>]

\* The runner objects something still refers to: this.paged, a suspended
\* callback, or the data service's subscription list.  The others are
\* garbage.
Referenced(w) ==
  {i \in DOMAIN w.runners :
     \/ i = w.this.paged
     \/ w.runners[i].subscribed
     \/ \E k \in DOMAIN w.awaiting : w.awaiting[k].runner = i}

Commit(w) ==
  /\ this' = w.this
  /\ props' = w.props
  /\ runners' = [i \in Referenced(w) |-> w.runners[i]]
  /\ timer' = w.timer
  /\ sends' = w.sends
  /\ awaiting' = w.awaiting

-----------------------------------------------------------------------------
\* The transactions table, newest row first.  A row: [id, account, amount,
\* payee, date, cleared, reconciled, is_parent, parent_id (0: none),
\* schedule (None: not linked to a schedule)].

Today == 1

Row(id, account, amount, cleared, reconciled) ==
  [id |-> id, account |-> account, amount |-> amount, payee |-> "p1",
   date |-> 0,
   cleared |-> cleared, reconciled |-> reconciled, is_parent |-> FALSE,
   parent_id |-> 0, schedule |-> None]

Parent(id, account, amount, cleared, reconciled) ==
  [Row(id, account, amount, cleared, reconciled) EXCEPT !.is_parent = TRUE]

Child(id, parent, amount) ==
  [Row(id, parent.account, amount, parent.cleared, parent.reconciled)
     EXCEPT !.parent_id = parent.id]

\* One transaction in each account: what the view specification displays.
ViewDb == <<Row(1, "a1", -50, TRUE, FALSE), Row(2, "a2", 20, FALSE, FALSE)>>

NoChanges == [added |-> <<>>, updated |-> <<>>, deleted |-> <<>>]

\* No handler of the mutation coordinator has run yet.
NoTask ==
  [op |-> "", pc |-> "", name |-> "", value |-> "", ids |-> {},
   confirmed |-> FALSE, calls |-> <<>>,
   target |-> 0, cleared |-> 0, diff |-> 0, changes |-> NoChanges,
   before |-> <<>>]

-----------------------------------------------------------------------------
\* The data service and the shared transaction transforms (loot-core).

GroupKey(r) == IF r.parent_id /= 0 THEN r.parent_id ELSE r.id

\* runQuery(q('transactions').filter(..).select('*').options({splits:
\* 'grouped'})) followed by ungroupTransactions: every row of a split group
\* that holds a row matching the filter (`ids`: the matching rows).
Grouped(d, ids) ==
  LET InGroup(r) == \E m \in Range(d) : m.id \in ids /\ GroupKey(m) = GroupKey(r)
  IN SelectSeq(d, InGroup)

\* updateTransaction(transactions, transaction).diff
updateTransaction(transactions, transaction) ==
  [NoChanges EXCEPT !.updated =
     IF transaction \in Range(transactions) THEN <<>> ELSE <<transaction>>]

\* applyChanges(diff, transactions), also what the data service does with a
\* transactions-batch-update.
applyChanges(diff, d) ==
  LET gone == {x.id : x \in Range(diff.deleted)}
      Kept(r) == r.id \notin gone
      new(r) == IF \E u \in Range(diff.updated) : u.id = r.id
                THEN Merge(r, CHOOSE u \in Range(diff.updated) : u.id = r.id)
                ELSE r
      kept == SelectSeq(d, Kept)
  IN diff.added \o [i \in DOMAIN kept |-> new(kept[i])]

\* The data service applies a transactions-batch-update; a list the request
\* leaves out is empty.
batchUpdate(d, changes) ==
  LET list(f) == IF f \in DOMAIN changes THEN changes[f] ELSE <<>>
  IN applyChanges([added |-> list("added"), updated |-> list("updated"),
                   deleted |-> list("deleted")], d)

\* realizeTempTransactions: the temporary id becomes a fresh one.
FreshId(d) ==
  CHOOSE n \in 1..(Len(d) + 1) : \A r \in Range(d) : r.id /= n

FreshIds(used, k) ==
  LET RECURSIVE From(_, _)
      From(u, n) ==
        IF n = 0 THEN <<>>
        ELSE LET id == CHOOSE i \in 1..(Cardinality(u) + 1) : i \notin u
             IN <<id>> \o From(u \cup {id}, n - 1)
  IN From(used, k)

\* deleteTransaction(transactions, id).diff: the row goes, a parent takes its
\* children along, and the parent of a removed child is derived again.
deleteTransaction(transactions, id) ==
  LET Gone(r) == r.id = id \/ r.parent_id = id
      IsParentOfGone(r) ==
        \E c \in Range(transactions) : c.id = id /\ c.parent_id = r.id
  IN [added |-> <<>>,
      updated |-> SelectSeq(transactions, IsParentOfGone),
      deleted |-> SelectSeq(transactions, Gone)]

-----------------------------------------------------------------------------
\* Batch operations on selected rows.

\* The runQuery of checkForReconciledTransactions and of the guard of
\* onBatchEdit: filter { id: { $oneof: ids }, reconciled: true }.
fetchReconciled(d, ids) ==
  Grouped(d, {r.id : r \in {x \in Range(d) : x.id \in ids /\ x.reconciled}})

\* The runQuery of the three operations: filter { id: { $oneof: ids } }.
fetchSelected(d, ids) == Grouped(d, ids)

GuardedNames == {"amount", "payee", "account", "date"}

\* onBatchEdit (onChange): the value a cleared toggle sets.
clearedValue(transactions) == \E t \in Range(transactions) : ~t.cleared

\* onBatchEdit (onChange) skipping every fetched row but the reconciled ones
\* of a cleared toggle.
editSkipsReconciledOnly(trans, name, ids) ==
  name = "cleared" /\ trans.reconciled

\* onBatchEdit (onChange): the two early returns of the forEach callback.
editSkips(trans, name, ids) ==
  \/ name = "cleared" /\ trans.reconciled
  \/ trans.id \notin ids

\* onBatchEdit (onChange): the fetched rows the forEach passes to
\* updateTransaction, in order.
editCalls(fetched, name, ids) ==
  LET Passed(trans) == ~editSkips(trans, name, ids)
  IN SelectSeq(fetched, Passed)

\* onBatchEdit (onChange): the forEach over the fetched rows that accumulates
\* `changes`.
RECURSIVE editChangesFrom(_, _, _, _, _, _, _)
editChangesFrom(fetched, transactions, i, name, value, ids, changes) ==
  IF i > Len(fetched) THEN changes
  ELSE LET trans == fetched[i]
           edited == [trans EXCEPT ![name] = value]
           transaction ==
             IF name = "account" /\ trans.account /= value
             THEN [edited EXCEPT !.reconciled = FALSE]
             ELSE edited
           diff == updateTransaction(transactions, transaction)
           list(f) == IF f \in DOMAIN changes THEN changes[f] ELSE <<>>
       IN IF editSkips(trans, name, ids)
          THEN editChangesFrom(fetched, transactions, i + 1, name, value, ids,
                               changes)
          ELSE editChangesFrom(fetched, applyChanges(diff, transactions),
                 i + 1, name, value, ids,
                 [deleted |-> list("deleted") \o diff.deleted,
                  updated |-> list("updated") \o diff.updated,
                  added |-> list("added") \o diff.added])

\* onBatchEdit (onChange) sending the diff of the last processed row instead
\* of the accumulated one.
editChangesLastOnly(transactions, name, value, ids) ==
  LET all == editChangesFrom(transactions, transactions, 1, name,
                             IF name = "cleared"
                             THEN clearedValue(transactions)
                             ELSE value,
                             ids, [deleted |-> <<>>, updated |-> <<>>])
  IN [all EXCEPT !.updated = IF @ = <<>> THEN <<>> ELSE <<@[Len(@)]>>]

\* onBatchEdit (onChange) leaving the reconciled flag of every row as it was.
editChangesKeepingReconciled(transactions, name, value, ids) ==
  LET all == editChangesFrom(transactions, transactions, 1, name,
                             IF name = "cleared"
                             THEN clearedValue(transactions)
                             ELSE value,
                             ids, [deleted |-> <<>>, updated |-> <<>>])
      was(id) == CHOOSE t \in Range(transactions) : t.id = id
      kept(u) == [u EXCEPT !.reconciled = was(u.id).reconciled]
  IN [all EXCEPT !.updated = [k \in DOMAIN @ |-> kept(@[k])]]

editChanges(transactions, name, value, ids) ==
  editChangesFrom(transactions, transactions, 1, name,
                  IF name = "cleared" THEN clearedValue(transactions)
                  ELSE value,
                  ids, [deleted |-> <<>>, updated |-> <<>>])

\* onBatchDelete (onConfirmDelete) skipping the unselected rows only.
deleteSkipsUnselected(trans, ids) == trans.id \notin ids

\* onBatchDelete (onConfirmDelete): the early return of the forEach callback.
deleteSkips(trans, ids) ==
  \/ trans.id \notin ids
  \/ trans.parent_id /= 0 /\ trans.parent_id \in ids

\* onBatchDelete (onConfirmDelete): the fetched rows the forEach passes to
\* deleteTransaction, in order.
deleteCalls(fetched, ids) ==
  LET Passed(trans) == ~deleteSkips(trans, ids)
  IN SelectSeq(fetched, Passed)

\* onBatchDelete (onConfirmDelete): the forEach over the fetched rows.
RECURSIVE deleteChangesFrom(_, _, _, _, _)
deleteChangesFrom(fetched, transactions, i, ids, changes) ==
  IF i > Len(fetched) THEN changes
  ELSE LET trans == fetched[i]
           diff == deleteTransaction(transactions, trans.id)
       IN IF deleteSkips(trans, ids)
          THEN deleteChangesFrom(fetched, transactions, i + 1, ids, changes)
          ELSE deleteChangesFrom(fetched, applyChanges(diff, transactions),
                 i + 1, ids,
                 [deleted |-> changes.deleted \o diff.deleted,
                  updated |-> changes.updated \o diff.updated])

deleteChanges(transactions, ids) ==
  deleteChangesFrom(transactions, transactions, 1, ids,
                    [deleted |-> <<>>, updated |-> <<>>])

\* onBatchDuplicate (onConfirmDuplicate): every fetched row under a fresh id,
\* the children under the fresh id of their parent.
duplicateChanges(transactions, used) ==
  LET fresh == FreshIds(used, Len(transactions))
      index(id) == CHOOSE k \in DOMAIN transactions : transactions[k].id = id
      copy(k) ==
        [transactions[k] EXCEPT
           !.id = fresh[k],
           !.parent_id = IF @ = 0 THEN 0 ELSE fresh[index(@)]]
  IN [added |-> [k \in DOMAIN transactions |-> copy(k)]]

\* The ids of a selection in the order the table hands them over.
RECURSIVE Ascending(_)
Ascending(ids) ==
  IF ids = {} THEN <<>>
  ELSE LET least == CHOOSE i \in ids : \A j \in ids : i <= j
       IN <<least>> \o Ascending(ids \ {least})

\* onBatchUnlink: { updated: ids.map(id => ({ id, schedule: null })) }
unlinkChanges(ids) ==
  [updated |-> [k \in DOMAIN Ascending(ids) |->
                  [id |-> Ascending(ids)[k], schedule |-> None]]]

needsConfirmationNever(transactions) == FALSE

\* checkForReconciledTransactions and the guard of onBatchEdit:
\* transactions.length > 0
needsConfirmation(transactions) == Len(transactions) > 0

-----------------------------------------------------------------------------
\* Reconciliation.

RECURSIVE clearedSumWithParents(_)
clearedSumWithParents(transactions) ==
  IF transactions = <<>> THEN 0
  ELSE Head(transactions).amount + clearedSumWithParents(Tail(transactions))

\* onDoneReconciling: `cleared`, the sum over the fetched rows that are not
\* split parents.
RECURSIVE clearedSum(_)
clearedSum(transactions) ==
  IF transactions = <<>> THEN 0
  ELSE (IF Head(transactions).is_parent THEN 0 ELSE Head(transactions).amount)
       + clearedSum(Tail(transactions))

targetDiffSwapped(reconcileAmount, cleared) == cleared - reconcileAmount

\* onDoneReconciling: targetDiff
targetDiff(reconcileAmount, cleared) == reconcileAmount - cleared

\* The filter of onDoneReconciling: { cleared: true, account: accountId }
ClearedIds(d, accountId) ==
  {r.id : r \in {x \in Range(d) : x.cleared /\ x.account = accountId}}

\* The filter of lockTransactions: { cleared: true, reconciled: false,
\* account: accountId }
LockableIds(d, accountId) ==
  {r.id : r \in {x \in Range(d) :
                   x.cleared /\ ~x.reconciled /\ x.account = accountId}}

lockChangesFirstOnly(transactions) ==
  [updated |->
     IF transactions = <<>> THEN <<>>
     ELSE updateTransaction(transactions,
            [Head(transactions) EXCEPT !.reconciled = TRUE]).updated]

\* lockTransactions: the forEach over the fetched rows that accumulates
\* `changes`.
RECURSIVE lockChangesFrom(_, _, _, _)
lockChangesFrom(fetched, transactions, i, changes) ==
  IF i > Len(fetched) THEN changes
  ELSE LET diff == updateTransaction(transactions,
                     [fetched[i] EXCEPT !.reconciled = TRUE])
       IN lockChangesFrom(fetched, applyChanges(diff, transactions), i + 1,
            [changes EXCEPT !.updated = @ \o diff.updated])

lockChanges(transactions) ==
  lockChangesFrom(transactions, transactions, 1, [updated |-> <<>>])

reconciliationTransactionUncleared(accountId, diff, id) ==
  [Row(id, accountId, diff, FALSE, FALSE) EXCEPT !.date = Today]

\* onCreateReconciliationTransaction: the transaction it creates.
reconciliationTransaction(accountId, diff, id) ==
  [Row(id, accountId, diff, TRUE, FALSE) EXCEPT !.date = Today]

-----------------------------------------------------------------------------
\* The account view: lifecycle, user events, and the steps that resume the
\* suspended code.

InitView ==
  /\ phase = "mounting"
  /\ \E sb \in BOOLEAN :
       /\ props = [accountId |-> "a1", accounts |-> Accounts,
                   showBalances |-> sb]
       /\ this = [paged |-> 0, rootQuery |-> Query(""),
                  currentQuery |-> Query(""), state |-> InitialState(sb)]
  /\ runners = <<>>
  /\ timer = FALSE
  /\ sends = <<>>
  /\ awaiting = <<>>
  /\ db = ViewDb
  /\ task = NoTask
  /\ requests = <<>>
  /\ events = 0

Rest == UNCHANGED <<db, task, requests>>

\* A user event can be handled: the view is mounted and within the bounds.
CanHandle ==
  /\ phase = "mounted"
  /\ events < MaxEvents
  /\ Len(sends) < MaxSends

\* A handler run by a user event, to its end.
Handled(w) ==
  /\ Commit(Flush(w))
  /\ events' = events + 1
  /\ UNCHANGED phase
  /\ Rest

\* The end of a run of resumed code: React drops the updates queued for a
\* component that is unmounted, their callbacks with them.
Settle(w) ==
  IF phase = "unmounted" THEN [w EXCEPT !.updates = <<>>] ELSE Flush(w)

\* Code resumed by the event loop, to its end (or to its next suspension).
Resumed(w) ==
  /\ Commit(Settle(w))
  /\ UNCHANGED <<phase, events>>
  /\ Rest

\* componentDidMount after `await this.props.initiallyLoadPayees()`.
MountDone ==
  /\ phase = "mounting"
  /\ phase' = "mounted"
  /\ Commit(Flush(fetchTransactions(World)))
  /\ UNCHANGED events
  /\ Rest

Search ==
  /\ CanHandle
  /\ \E value \in SearchTexts : Handled(onSearch(World, value))

\* The 150 ms of the debounce have passed since the last onSearchDone call.
SearchTimerFires ==
  /\ timer
  /\ Resumed(onSearchDone([World EXCEPT !.timer = FALSE]))

ApplyFilter ==
  /\ CanHandle
  /\ \E cond \in Conds :
       /\ cond \in PlainConds => cond \notin Range(this.state.filters)
       /\ Handled(onApplyFilter(World, cond))

DeleteFilter ==
  /\ CanHandle
  /\ \E filter \in Range(this.state.filters) :
       Handled(onDeleteFilter(World, filter))

ClearFilters ==
  /\ CanHandle
  /\ Len(this.state.filters) > 0
  /\ Handled(onClearFilters(World))

CondOpChange ==
  /\ CanHandle
  /\ Len(this.state.filters) > 0
  /\ \E value \in {"and", "or"} :
       /\ value /= this.state.conditionsOp
       /\ Handled(onCondOpChange(World, value, this.state.filters))

Sort ==
  /\ CanHandle
  /\ \E headerClicked \in Fields, ascDesc \in Dirs :
       Handled(onSort(World, headerClicked, ascDesc))

RemoveSorting ==
  /\ CanHandle
  /\ this.state.sort /= NoSort
  /\ Handled(setState(World, [sort |-> NoSort], "removeSorting"))

\* The route changes to another account: UNSAFE_componentWillReceiveProps
\* queues its update with the fetchTransactions callback, componentDidUpdate
\* queues the reset of sort, search and filters, and the callback runs with
\* the new props.
SwitchAccount ==
  /\ CanHandle
  /\ \E a \in Accounts \ {props.accountId} :
       Handled(componentDidUpdate(
                 [UNSAFE_componentWillReceiveProps(World) EXCEPT !.props.accountId = a]))

\* An undo event or a closed modal asks for a refetch.
Refetch ==
  /\ CanHandle
  /\ ~runners[this.paged].inflight
  /\ Handled(refetchTransactions(World))

\* make-filters-from-conditions answers one of the suspended applyFilters.
FiltersAnswer ==
  \E i \in DOMAIN sends :
    Resumed(applyFiltersResume([World EXCEPT !.sends = RemoveAt(@, i)],
                               sends[i].conditions,
                               makeFiltersFromConditions(sends[i].sent)))

\* A fetch of a subscribed runner completes and the runner calls the callback
\* given to pagedQuery with the page data.
Deliver ==
  \E r \in DOMAIN runners :
    /\ runners[r].inflight
    /\ runners[r].subscribed
    /\ this.state.showBalances /\ canCalculateBalance(World)
         => Len(awaiting) < MaxSends
    /\ Resumed(onData([World EXCEPT !.runners[r].inflight = FALSE], r,
                      RowsOf(db, runners[r].query)))

\* The balance query of a suspended callback answers.
BalanceAnswer ==
  \E i \in DOMAIN awaiting :
    Resumed(onDataResume([World EXCEPT !.awaiting = RemoveAt(@, i)],
                         awaiting[i]))

\* componentWillUnmount
Unmount ==
  /\ phase = "mounted"
  /\ phase' = "unmounted"
  /\ Commit(componentWillUnmount(World))
  /\ UNCHANGED events
  /\ Rest

Next ==
  \/ MountDone
  \/ Search
  \/ SearchTimerFires
  \/ ApplyFilter
  \/ DeleteFilter
  \/ ClearFilters
  \/ CondOpChange
  \/ Sort
  \/ RemoveSorting
  \/ SwitchAccount
  \/ Refetch
  \/ FiltersAnswer
  \/ Deliver
  \/ BalanceAnswer
  \/ Unmount

Spec == InitView /\ [][Next]_vars

-----------------------------------------------------------------------------
\* Properties of the account view.

Live == {r \in DOMAIN runners : runners[r].subscribed}

\* C1: at most one runner created by updateQuery is subscribed, and it is the
\* one this.paged holds: every runner that was replaced has been unsubscribed.
C1_OneLiveRunner == \A r \in Live : r = this.paged

\* A replaced runner is still referenced (its callback is suspended) beside
\* the subscribed runner that replaced it.
C1_Witness ==
  /\ this.paged \in Live
  /\ \E r \in DOMAIN runners : r /= this.paged /\ r \notin Live

ViewData ==
  <<this.state.transactions, this.state.transactionCount, this.state.balances>>

\* C2: the step that resumes a callback suspended at its balance query, for a
\* runner that has been unsubscribed in the meantime, writes nothing into
\* transactions, transactionCount and balances.
C2_NoStaleWrite ==
  [][\A i \in DOMAIN awaiting :
       (awaiting' = RemoveAt(awaiting, i)
        /\ ~runners[awaiting[i].runner].subscribed)
       => ViewData' = ViewData]_vars

\* C3: state.balances is null unless search is empty, the filter list is
\* empty, and the sort is unset or the single key date, descending.
BalanceEligible ==
  /\ this.state.search = ""
  /\ this.state.filters = <<>>
  /\ \/ this.state.sort = NoSort
     \/ this.state.sort = [field |-> "date", ascDesc |-> "desc",
                           prevField |-> "", prevAscDesc |-> ""]

C3_BalancesOnlyWhenEligible == IsSome(this.state.balances) => BalanceEligible

\* Nothing is pending that can still change the runner.
Settled == sends = <<>> /\ ~timer

\* C3 in the states where nothing is pending and no callback is suspended.
C3_BalancesOnlyWhenEligibleSettled ==
  (Settled /\ awaiting = <<>> /\ \A r \in Live : ~runners[r].inflight)
    => C3_BalancesOnlyWhenEligible

\* The subscribed runner's query is the search query on top of the base query.
SearchLayered ==
  /\ this.paged \in Live
  /\ runners[this.paged].query =
       makeTransactionSearchQuery(this.currentQuery, this.state.search)

\* C4: when the answer to an applyFilters call made under a non-empty search
\* text arrives last (no other call and no debounce timer is pending), the
\* live runner's query is the search query on top of the new base query.
C4_SearchSurvivesFilterChange ==
  [][\A i \in DOMAIN sends :
       (/\ sends' = RemoveAt(sends, i)
        /\ sends[i].search /= ""
        /\ phase = "mounted"
        /\ this'.state.search /= ""
        /\ Settled')
       => SearchLayered']_vars

-----------------------------------------------------------------------------
\* The mutation coordinator: steps shared by its handlers.  A handler runs
\* from a user event to its end before the next one starts.

MaxOps == 5

Idle == task.pc \in {"", "done"}

CanOperate ==
  /\ phase = "mounted"
  /\ Idle
  /\ events < MaxOps

\* The data service answers the handler's transactions-batch-update, and the
\* handler goes on to `await this.refetchTransactions()`.
BatchUpdateAnswer ==
  /\ task.pc = "send"
  /\ db' = batchUpdate(db, task.changes)
  /\ Commit(Flush(refetchTransactions(World)))
  /\ task' = [task EXCEPT !.pc = "refetch"]
  /\ UNCHANGED <<phase, events, requests>>

\* The fetch started by refetchTransactions has completed; the handler runs
\* to its end.
RefetchAnswer ==
  /\ task.pc = "refetch"
  /\ this.paged /= 0 => ~runners[this.paged].inflight
  /\ Commit(Flush(IF task.op = "onDoneReconciling"
                  THEN setState(World, [reconcileAmount |-> None], "")
                  ELSE World))
  /\ task' = [task EXCEPT !.pc = "done"]
  /\ UNCHANGED <<phase, events, db, requests>>

-----------------------------------------------------------------------------
\* Reconciling an account.

Targets == {-60, -80}
Diffs == {20, 5}

ScenarioDb ==
  <<Row(1, "a1", -50, TRUE, FALSE), Row(2, "a1", -30, TRUE, FALSE),
    Row(3, "a1", 20, FALSE, FALSE)>>

SplitDb ==
  <<Row(1, "a1", -50, TRUE, FALSE),
    Parent(2, "a1", -30, TRUE, FALSE),
    Child(3, Parent(2, "a1", -30, TRUE, FALSE), -10),
    Child(4, Parent(2, "a1", -30, TRUE, FALSE), -20),
    Row(5, "a2", -7, TRUE, FALSE)>>

\* The view some time after its mount: the runner of the root query has
\* delivered its page.
InitMounted(d) ==
  /\ phase = "mounted"
  /\ props = [accountId |-> "a1", accounts |-> Accounts,
              showBalances |-> FALSE]
  /\ this = [paged |-> 1, rootQuery |-> Query("a1"),
             currentQuery |-> Query("a1"),
             state |-> Merge(InitialState(FALSE),
                        PageState(RowsOf(d, Query("a1")),
                                  Len(RowsOf(d, Query("a1"))), FALSE, None))]
  /\ runners = [i \in {1} |->
                  [query |-> Query("a1"), isFiltered |-> FALSE,
                   subscribed |-> TRUE, inflight |-> FALSE]]
  /\ timer = FALSE
  /\ sends = <<>>
  /\ awaiting = <<>>
  /\ db = d
  /\ task = NoTask
  /\ requests = <<>>
  /\ events = 0

InitRecon == \E d \in {ScenarioDb, SplitDb} : InitMounted(d)

\* onReconcile
Reconcile ==
  /\ CanOperate
  /\ \E balance \in Targets :
       Commit(Flush(setState(World, [reconcileAmount |-> Some(balance)], "")))
  /\ task' = [NoTask EXCEPT !.op = "onReconcile", !.pc = "done"]
  /\ requests' = <<>>
  /\ events' = events + 1
  /\ UNCHANGED <<phase, db>>

\* onDoneReconciling up to its runQuery.
DoneReconciling ==
  /\ CanOperate
  /\ IsSome(this.state.reconcileAmount)
  /\ task' = [NoTask EXCEPT !.op = "onDoneReconciling", !.pc = "fetchCleared",
                            !.target = The(this.state.reconcileAmount),
                            !.before = db]
  /\ requests' = <<>>
  /\ events' = events + 1
  /\ UNCHANGED <<phase, props, this, runners, timer, sends, awaiting, db>>

\* onDoneReconciling from the answer of its runQuery: to its end, or into
\* lockTransactions up to the runQuery there.
ClearedAnswer ==
  /\ task.pc = "fetchCleared"
  /\ LET transactions == Grouped(db, ClearedIds(db, props.accountId))
         cleared == clearedSum(transactions)
         diff == targetDiff(task.target, cleared)
     IN /\ task' = [task EXCEPT !.cleared = cleared, !.diff = diff,
                       !.pc = IF diff = 0 THEN "lockFetch" ELSE "done"]
        /\ Commit(Flush(IF diff = 0
                        THEN setState(World, [workingHard |-> TRUE], "")
                        ELSE setState(World, [reconcileAmount |-> None], "")))
  /\ UNCHANGED <<phase, events, db, requests>>

\* lockTransactions from the answer of its runQuery to its send.
LockFetchAnswer ==
  /\ task.pc = "lockFetch"
  /\ LET transactions == Grouped(db, LockableIds(db, props.accountId))
         changes == lockChanges(transactions)
     IN /\ task' = [task EXCEPT !.changes = changes, !.pc = "send"]
        /\ requests' = Append(requests, changes)
  /\ UNCHANGED <<phase, props, this, runners, timer, sends, awaiting, db,
                 events>>

\* onCreateReconciliationTransaction up to its send.
CreateReconciliationTransaction ==
  /\ CanOperate
  /\ \E diff \in Diffs :
       LET reconciliationTransactions ==
             <<reconciliationTransaction(props.accountId, diff, FreshId(db))>>
       IN /\ Commit(Flush(setState(World,
               [transactions |->
                  reconciliationTransactions \o this.state.transactions], "")))
          /\ task' = [NoTask EXCEPT
                        !.op = "onCreateReconciliationTransaction",
                        !.pc = "send", !.diff = diff, !.before = db,
                        !.changes = [added |-> reconciliationTransactions]]
          /\ requests' = <<[added |-> reconciliationTransactions]>>
  /\ events' = events + 1
  /\ UNCHANGED <<phase, db>>

NextRecon ==
  \/ Reconcile
  \/ DoneReconciling
  \/ ClearedAnswer
  \/ LockFetchAnswer
  \/ CreateReconciliationTransaction
  \/ BatchUpdateAnswer
  \/ RefetchAnswer
  \/ Deliver

SpecRecon == InitRecon /\ [][NextRecon]_vars

-----------------------------------------------------------------------------
\* Batch operations: the selected rows, the confirmation dialog, the field
\* editor, and the steps that resume the suspended handlers.

MaxBatches == 1
MaxSelected == 2
MaxRows == 8

Names == {"cleared", "account", "amount", "payee", "date"}

FieldValues(name) ==
  CASE name = "account" -> Accounts
    [] name = "amount" -> {5}
    [] name = "payee" -> {"p2"}
    [] name = "date" -> {Today}

BatchDb ==
  <<Row(1, "a1", -50, TRUE, FALSE),
    Row(2, "a1", 20, FALSE, FALSE),
    Row(3, "a1", -5, TRUE, TRUE),
    Parent(4, "a1", -30, FALSE, FALSE),
    [Child(5, Parent(4, "a1", -30, FALSE, FALSE), -10) EXCEPT !.cleared = TRUE],
    Child(6, Parent(4, "a1", -30, FALSE, FALSE), -20)>>

InitBatch == InitMounted(BatchDb)

RowIds(d) == {r.id : r \in Range(d)}

Selections ==
  {ids \in SUBSET RowIds(db) : ids /= {} /\ Cardinality(ids) <= MaxSelected}

CanBatch ==
  /\ phase = "mounted"
  /\ Idle
  /\ events < MaxBatches

\* A handler starts and is suspended at once, the view untouched.
Started(t) ==
  /\ task' = t
  /\ requests' = <<>>
  /\ events' = events + 1
  /\ UNCHANGED <<phase, props, this, runners, timer, sends, awaiting, db>>

\* onConfirmDelete, onConfirmDuplicate and onChange up to their runQuery.
StartWorking(t) ==
  /\ Commit(Flush(setState(World, [workingHard |-> TRUE], "")))
  /\ task' = [t EXCEPT !.pc = "fetch"]

\* onBatchEdit up to its first suspension or to the modal it opens.
BatchEdit ==
  /\ CanBatch
  /\ \E name \in Names, ids \in Selections :
       LET t == [NoTask EXCEPT !.op = "onBatchEdit", !.name = name,
                               !.ids = ids, !.before = db]
       IN IF name \in GuardedNames
          THEN Started([t EXCEPT !.pc = "guard"])
          ELSE IF name = "cleared"
               THEN /\ StartWorking(t)
                    /\ requests' = <<>>
                    /\ events' = events + 1
                    /\ UNCHANGED <<phase, db>>
               ELSE Started([t EXCEPT !.pc = "edit-field"])

\* onBatchDelete up to the runQuery of checkForReconciledTransactions.
BatchDelete ==
  /\ CanBatch
  /\ \E ids \in Selections :
       Started([NoTask EXCEPT !.op = "onBatchDelete", !.pc = "guard",
                              !.ids = ids, !.before = db])

\* onBatchDuplicate up to the runQuery of checkForReconciledTransactions.
BatchDuplicate ==
  /\ CanBatch
  /\ \E ids \in Selections :
       /\ Len(db) + Len(fetchSelected(db, ids)) <= MaxRows
       /\ Started([NoTask EXCEPT !.op = "onBatchDuplicate", !.pc = "guard",
                                 !.ids = ids, !.before = db])

\* The guard's runQuery answers: the confirmation dialog opens, or the
\* operation goes on.
ReconciledAnswer ==
  /\ task.pc = "guard"
  /\ LET transactions == fetchReconciled(db, task.ids)
     IN IF needsConfirmation(transactions)
        THEN /\ task' = [task EXCEPT !.pc = "confirm-transaction-edit"]
             /\ UNCHANGED <<props, this, runners, timer, sends, awaiting>>
        ELSE IF task.op = "onBatchEdit"
             THEN /\ task' = [task EXCEPT !.pc = "edit-field"]
                  /\ UNCHANGED <<props, this, runners, timer, sends,
                                 awaiting>>
             ELSE StartWorking(task)
  /\ UNCHANGED <<phase, events, db, requests>>

\* The user confirms in confirm-transaction-edit: onConfirm runs.
Confirm ==
  /\ task.pc = "confirm-transaction-edit"
  /\ IF task.op = "onBatchEdit"
     THEN /\ task' = [task EXCEPT !.pc = "edit-field", !.confirmed = TRUE]
          /\ UNCHANGED <<props, this, runners, timer, sends, awaiting>>
     ELSE StartWorking([task EXCEPT !.confirmed = TRUE])
  /\ UNCHANGED <<phase, events, db, requests>>

\* The user closes a dialog without confirming or submitting.
Decline ==
  /\ task.pc \in {"confirm-transaction-edit", "edit-field"}
  /\ task' = [task EXCEPT !.pc = "done"]
  /\ UNCHANGED <<phase, props, this, runners, timer, sends, awaiting, db,
                 events, requests>>

\* The user submits a value in edit-field: onChange(name, value) runs up to
\* its runQuery.
SubmitField ==
  /\ task.pc = "edit-field"
  /\ \E value \in FieldValues(task.name) :
       StartWorking([task EXCEPT !.value = value])
  /\ UNCHANGED <<phase, events, db, requests>>

\* The runQuery for the selected rows answers: the handler computes its
\* changes and sends them.
SelectedAnswer ==
  /\ task.pc = "fetch"
  /\ LET transactions == fetchSelected(db, task.ids)
         changes ==
           CASE task.op = "onBatchEdit" ->
                  editChanges(transactions, task.name, task.value, task.ids)
             [] task.op = "onBatchDelete" ->
                  deleteChanges(transactions, task.ids)
             [] task.op = "onBatchDuplicate" ->
                  duplicateChanges(transactions, RowIds(db))
         calls ==
           CASE task.op = "onBatchEdit" ->
                  editCalls(transactions, task.name, task.ids)
             [] task.op = "onBatchDelete" ->
                  deleteCalls(transactions, task.ids)
             [] task.op = "onBatchDuplicate" -> <<>>
     IN /\ task' = [task EXCEPT !.changes = changes, !.calls = calls,
                                !.pc = "send"]
        /\ requests' = Append(requests, changes)
  /\ UNCHANGED <<phase, props, this, runners, timer, sends, awaiting, db,
                 events>>

NextBatch ==
  \/ BatchEdit
  \/ BatchDelete
  \/ BatchDuplicate
  \/ ReconciledAnswer
  \/ Confirm
  \/ Decline
  \/ SubmitField
  \/ SelectedAnswer
  \/ BatchUpdateAnswer
  \/ RefetchAnswer
  \/ Deliver

SpecBatch == InitBatch /\ [][NextBatch]_vars

-----------------------------------------------------------------------------
\* Properties of reconciliation.

DoneReconcilingEnded == task.op = "onDoneReconciling" /\ task.pc = "done"

ClearedRows(d, accountId) ==
  {r \in Range(d) : r.cleared /\ r.account = accountId}

ReconciledIds(d) == {r.id : r \in {x \in Range(d) : x.reconciled}}

\* C7: when onDoneReconciling has ended with a difference of zero, it has sent
\* one batch update and every cleared transaction of the account is
\* reconciled; with another difference it has sent none and the reconciled
\* flags are those it found; reconcileAmount is null either way.
C7_DoneReconciling ==
  DoneReconcilingEnded =>
    /\ task.diff = 0 =>
         /\ Len(requests) = 1
         /\ \A r \in ClearedRows(db, props.accountId) : r.reconciled
    /\ task.diff /= 0 =>
         /\ requests = <<>>
         /\ ReconciledIds(db) = ReconciledIds(task.before)
    /\ this.state.reconcileAmount = None

\* A reconciliation that matched has locked several rows.
C7_Witness ==
  /\ DoneReconcilingEnded
  /\ task.diff = 0
  /\ Cardinality(ReconciledIds(db) \ ReconciledIds(task.before)) > 1

RECURSIVE SumAmounts(_)
SumAmounts(rows) ==
  IF rows = {} THEN 0
  ELSE LET r == CHOOSE x \in rows : TRUE
       IN r.amount + SumAmounts(rows \ {r})

ComputedCleared ==
  task.op = "onDoneReconciling" /\ task.pc /= "fetchCleared"

\* C8: the sum onDoneReconciling computes is the sum of the amounts of the
\* account's cleared rows that are not split parents, split children
\* included, and its difference is the target minus that sum.
C8_ClearedSum ==
  ComputedCleared =>
    /\ task.cleared =
         SumAmounts({r \in ClearedRows(task.before, props.accountId) :
                       ~r.is_parent})
    /\ task.diff = task.target - task.cleared

\* The sum was computed over an account with a cleared split transaction.
C8_Witness ==
  /\ ComputedCleared
  /\ \E r \in ClearedRows(task.before, props.accountId) : r.is_parent
  /\ \E r \in ClearedRows(task.before, props.accountId) : r.parent_id /= 0

\* The rows of the scenario after its adjustment of 20 was created.
AdjustedScenario(d) ==
  /\ Len(d) = 4
  /\ Range(SubSeq(d, 2, 4)) \subseteq
       {[ScenarioDb[i] EXCEPT !.reconciled = b] : i \in 1..3, b \in BOOLEAN}
  /\ d[1].amount = 20

ScenarioEnded(d) ==
  DoneReconcilingEnded /\ task.target = -60 /\ task.before = d

\* C9: with A = -50 cleared, B = -30 cleared, C = +20 uncleared and the target
\* -60, onDoneReconciling finds the difference 20 and locks nothing; once the
\* adjustment of 20 exists, reconciling to -60 again finds the difference 0
\* and leaves A, B and the adjustment reconciled, C unreconciled.
C9_Scenario ==
  /\ ScenarioEnded(ScenarioDb) =>
       /\ task.diff = 20
       /\ requests = <<>>
       /\ db = ScenarioDb
  /\ (DoneReconcilingEnded /\ task.target = -60
        /\ AdjustedScenario(task.before)
        /\ ReconciledIds(task.before) = {}) =>
       /\ task.diff = 0
       /\ ReconciledIds(db) = {1, 2, 4}
       /\ \E r \in Range(db) : r.id = 4 /\ r.amount = 20 /\ r.cleared

\* The second reconciliation of the scenario has ended.
C9_Witness ==
  /\ DoneReconcilingEnded
  /\ task.target = -60
  /\ AdjustedScenario(task.before)
  /\ ReconciledIds(task.before) = {}
  /\ ReconciledIds(db) = {1, 2, 4}

Creating == task.op = "onCreateReconciliationTransaction"

\* C10: onCreateReconciliationTransaction(diff) asks for one added
\* transaction: amount diff, dated today, cleared, not reconciled, of the
\* viewed account.  While its batch update is unanswered the transaction
\* heads the visible list, is not in the table, and no refetch has started;
\* afterwards the table has this one row more.
C10_Adjustment ==
  Creating =>
    /\ Len(requests) = 1
    /\ DOMAIN requests[1] = {"added"}
    /\ Len(requests[1].added) = 1
    /\ LET t == requests[1].added[1]
       IN /\ t.amount = task.diff
          /\ t.date = Today
          /\ t.cleared
          /\ ~t.reconciled
          /\ t.account = props.accountId
          /\ task.pc = "send" =>
               /\ Head(this.state.transactions) = t
               /\ db = task.before
               /\ ~runners[this.paged].inflight
          /\ task.pc /= "send" => db = <<t>> \o task.before

\* The adjustment heads the visible list while its batch update is pending.
C10_Witness ==
  /\ Creating
  /\ task.pc = "send"
  /\ Len(this.state.transactions) > 1

-----------------------------------------------------------------------------
\* Properties of the batch operations.

Guarded ==
  \/ task.op \in {"onBatchDelete", "onBatchDuplicate"}
  \/ task.op = "onBatchEdit" /\ task.name \in GuardedNames

SelectedRows == {r \in Range(task.before) : r.id \in task.ids}

TouchesReconciled == \E r \in SelectedRows : r.reconciled

\* C5: a batch edit of amount, payee, account or date, a batch delete or a
\* batch duplicate whose selection holds a reconciled row has sent no
\* transactions-batch-update, and the rows are as it found them, as long as
\* the user has not confirmed in confirm-transaction-edit.
C5_ConfirmBeforeSend ==
  (Guarded /\ TouchesReconciled /\ ~task.confirmed) =>
    /\ requests = <<>>
    /\ db = task.before

\* The user has declined the confirmation of such an operation.
C5_Witness ==
  /\ Guarded
  /\ TouchesReconciled
  /\ ~task.confirmed
  /\ task.pc = "done"

RowOf(d, id) == CHOOSE r \in Range(d) : r.id = id

\* C6: after a batch cleared toggle, the selected rows that are not
\* reconciled are all uncleared if every selected row was cleared, and all
\* cleared if some selected row was uncleared; the selected reconciled rows
\* have the cleared flag they had.
C6_ClearedToggle ==
  (task.op = "onBatchEdit" /\ task.name = "cleared"
     /\ task.pc \in {"refetch", "done"}) =>
    \A r \in SelectedRows :
      RowOf(db, r.id).cleared =
        IF r.reconciled THEN r.cleared
        ELSE \E x \in SelectedRows : ~x.cleared

-----------------------------------------------------------------------------
\* Sorting: clicks on three sortable columns, with and without filters and
\* search text.

MaxClicks == 3

SortFields == {"date", "payee", "category"}

InitSort == InitMounted(ViewDb)

CanClick ==
  /\ phase = "mounted"
  /\ events < MaxClicks
  /\ Len(sends) < MaxSends

\* A click on a column header: onSort(headerClicked, ascDesc).
ClickSort ==
  /\ CanClick
  /\ \E headerClicked \in SortFields, ascDesc \in Dirs :
       Handled(onSort(World, headerClicked, ascDesc))

\* onApplyFilter with a new condition.
AddFilter ==
  /\ CanClick
  /\ \E cond \in PlainConds :
       /\ cond \notin Range(this.state.filters)
       /\ Handled(onApplyFilter(World, cond))

NextSort ==
  \/ ClickSort
  \/ AddFilter
  \/ Search
  \/ SearchTimerFires
  \/ FiltersAnswer
  \/ Deliver

SpecSort == InitSort /\ [][NextSort]_vars

\* C11: the sort state keeps the current key and one previous key; a click
\* on another column makes the old current key the previous one, so the key
\* that leaves the state is the old previous one, the oldest.
C11_SortHistory ==
  [][this'.state.sort.field /= this.state.sort.field =>
       /\ DOMAIN this'.state.sort =
            {"field", "ascDesc", "prevField", "prevAscDesc"}
       /\ this'.state.sort.prevField = this.state.sort.field
       /\ this'.state.sort.prevAscDesc = this.state.sort.ascDesc]_vars

\* Three clicks have been made and the last two columns are the keys.
C11_Witness ==
  /\ events = MaxClicks
  /\ this.state.sort.field = "category"
  /\ this.state.sort.prevField = "payee"

\* C12: a click on the current sort column changes the direction only: the
\* field, the previous field and the previous direction stay.
C12_SameColumn ==
  [][(/\ this'.state.sort /= this.state.sort
      /\ this'.state.sort.field = this.state.sort.field) =>
       /\ this'.state.sort.ascDesc /= this.state.sort.ascDesc
       /\ this'.state.sort.prevField = this.state.sort.prevField
       /\ this'.state.sort.prevAscDesc = this.state.sort.prevAscDesc]_vars

\* The current column was clicked again with a previous key in place.
C12_Witness ==
  /\ events = MaxClicks
  /\ this.state.sort.field = "payee"
  /\ this.state.sort.ascDesc = "desc"
  /\ this.state.sort.prevField = "date"
  /\ this.state.sort.prevAscDesc = "desc"

\* The orderBy terms the sort state asks for.
ExpectedOrder ==
  LET sort == this.state.sort
      column(f) == CASE f = "payee" -> "payee.name"
                     [] f = "category" -> "category.name"
                     [] OTHER -> f
  IN IF sort.field = "" THEN <<>>
     ELSE <<<<column(sort.field), sort.ascDesc>>>> \o
          (IF sort.prevField = "" THEN <<>>
           ELSE <<<<column(sort.prevField), sort.prevAscDesc>>>>)

\* C13: when no data-service call and no debounce is pending, the query of
\* the live runner is ordered by the current sort key, then by the previous
\* key if there is one, and by nothing else.
C13_QueryOrder ==
  Settled =>
    /\ this.paged \in Live
    /\ runners[this.paged].query.order = ExpectedOrder

\* A two-key sort has settled with a filter active.
C13_Witness ==
  /\ Settled
  /\ this.state.filters /= <<>>
  /\ this.state.sort.prevField /= ""
  /\ events = MaxClicks

-----------------------------------------------------------------------------
\* Searching: keystrokes in the search field and the debounce timer.

MaxKeystrokes == 4

Keystrokes == {"", "r", "re", "rent"}

InitSearch == InitMounted(ViewDb)

\* The search field changes: onSearch(value).
Keystroke ==
  /\ phase = "mounted"
  /\ events < MaxKeystrokes
  /\ \E value \in Keystrokes :
       /\ value /= this.state.search
       /\ Handled(onSearch(World, value))

NextSearch ==
  \/ Keystroke
  \/ SearchTimerFires
  \/ Deliver

SpecSearch == InitSearch /\ [][NextSearch]_vars

\* C14: an onSearch call executes no query: it leaves no runner subscribed
\* and (re)starts the 150 ms wait.  When the wait ends, one new runner is
\* started, with the query for the text of the last call.
C14_Debounce ==
  [][/\ events' /= events =>
          /\ timer'
          /\ this'.paged = this.paged
          /\ Live' = {}
     /\ (timer /\ ~timer') =>
          /\ this'.paged /= this.paged
          /\ Live' = {this'.paged}
          /\ runners'[this'.paged].query =
               IF this.state.search = "" THEN this.currentQuery
               ELSE makeTransactionSearchQuery(this.currentQuery,
                                               this.state.search)]_vars

\* The wait has ended after a burst of calls that ended with "rent".
C14_Witness ==
  /\ events = MaxKeystrokes
  /\ ~timer
  /\ this.state.search = "rent"
  /\ this.paged \in Live
  /\ this.paged = 2

\* The runner that onSearchDone starts when the wait ends.
SearchRunner(query, isFiltered) ==
  /\ this'.paged \in Live'
  /\ runners'[this'.paged].query = query
  /\ runners'[this'.paged].isFiltered = isFiltered

\* C15: when the debounce fires with an empty text, the new runner has the
\* current query and is flagged filtered exactly when the filter list is
\* non-empty; with a non-empty text it has the search query built on the
\* current query and is always flagged filtered.
C15_SearchDone ==
  [][(timer /\ ~timer') =>
       IF this.state.search = ""
       THEN SearchRunner(this.currentQuery, this.state.filters /= <<>>)
       ELSE SearchRunner(
              makeTransactionSearchQuery(this.currentQuery,
                                         this.state.search),
              TRUE)]_vars

\* A non-empty text was searched with no filter set: the runner is flagged
\* filtered all the same.
C15_Witness ==
  /\ ~timer
  /\ this.state.search = "rent"
  /\ this.state.filters = <<>>
  /\ this.paged \in Live
  /\ runners[this.paged].isFiltered
  /\ runners[this.paged].query =
       makeTransactionSearchQuery(this.currentQuery, "rent")

-----------------------------------------------------------------------------
\* The view up to one last user event (an account switch or a click on
\* "clear filters") and the settling of what was pending at that event.
\* task.op names the handler of the last event; it is "" before it.

InitFinal == InitMounted(ViewDb)

\* User events before the last one.
UserEvent ==
  /\ task.op = ""
  /\ (ApplyFilter \/ CondOpChange \/ Sort \/ Search)

\* The handler of the last user event, called with `value`, to its end.
HandledLastWith(w, op, value) ==
  /\ phase = "mounted"
  /\ task.op = ""
  /\ Commit(Flush(w))
  /\ task' = [NoTask EXCEPT !.op = op, !.pc = "done", !.value = value]
  /\ UNCHANGED <<phase, events, db, requests>>

\* The handler of the last user event, to its end.
HandledLast(w, op) == HandledLastWith(w, op, "")

\* The route changes to another account (see SwitchAccount).
LastSwitchAccount ==
  \E a \in Accounts \ {props.accountId} :
    HandledLast(componentDidUpdate(
                  [UNSAFE_componentWillReceiveProps(World)
                     EXCEPT !.props.accountId = a]),
                "componentDidUpdate")

\* The user clicks "clear filters" in the filter bar.
LastClearFilters ==
  /\ Len(this.state.filters) > 0
  /\ HandledLast(onClearFilters(World), "onClearFilters")

\* The user changes the combinator in the filter bar.
LastCondOpChange ==
  /\ Len(this.state.filters) > 0
  /\ \E value \in {"and", "or"} :
       /\ value /= this.state.conditionsOp
       /\ HandledLastWith(onCondOpChange(World, value, this.state.filters),
                          "onCondOpChange", value)

NextFinal ==
  \/ UserEvent
  \/ LastSwitchAccount
  \/ LastClearFilters
  \/ LastCondOpChange
  \/ FiltersAnswer
  \/ SearchTimerFires
  \/ Deliver

SpecFinal == InitFinal /\ [][NextFinal]_vars

\* The last event has been handled and nothing it left pending remains:
\* every make-filters-from-conditions call has answered, the debounce has
\* fired and the live runner has delivered its page.
SettledAfter(op) ==
  /\ task.op = op
  /\ Settled
  /\ \A r \in DOMAIN runners : ~runners[r].inflight

\* C16: after an account switch has settled, sort, search text and filter
\* list are empty and the subscribed runner has the unfiltered, unsorted
\* root query of the new account, also when a make-filters-from-conditions
\* call was in flight at the switch.
C16_AccountSwitch ==
  SettledAfter("componentDidUpdate") =>
    /\ this.state.sort = NoSort
    /\ this.state.search = ""
    /\ this.state.filters = <<>>
    /\ this.paged \in Live
    /\ runners[this.paged].query = Query(props.accountId)

\* C17: after an account switch the combinator is `and` and the saved-filter
\* reference is unset.
C17_SwitchResetsCombinator ==
  task.op = "componentDidUpdate" =>
    /\ this.state.conditionsOp = "and"
    /\ this.state.filterId = NoFilterId

\* C18: after onClearFilters has settled, the combinator is `and`, the
\* saved-filter reference is unset, the filter list is empty, the base query
\* is the unfiltered root query, and with a non-empty search text the
\* subscribed runner has the search query over that base query.
C18_ClearFilters ==
  SettledAfter("onClearFilters") =>
    /\ this.state.conditionsOp = "and"
    /\ this.state.filterId = NoFilterId
    /\ this.state.filters = <<>>
    /\ this.currentQuery.filters = <<>>
    /\ this.currentQuery.acct = props.accountId
    /\ this.state.search /= "" =>
         /\ this.paged \in Live
         /\ runners[this.paged].query =
              makeTransactionSearchQuery(Query(props.accountId),
                                         this.state.search)

-----------------------------------------------------------------------------
\* Batch operations: which fetched rows an operation touches.

\* The operation has computed and sent its changes.
Sent(op) ==
  task.op = op /\ task.pc \in {"send", "refetch", "done"} /\ requests /= <<>>

\* The data service has applied the changes of the operation.
Applied(op) ==
  task.op = op /\ task.pc \in {"refetch", "done"} /\ requests /= <<>>

C20_DeleteCalls ==
  Sent("onBatchDelete") =>
    \A t \in Range(task.calls) :
      /\ t.id \in task.ids
      /\ ~(t.parent_id /= 0 /\ t.parent_id \in task.ids)

\* The parent 4 and its child 5 were requested: the sibling 6 was fetched
\* too, only the parent was passed to deleteTransaction, and the three rows
\* are gone.
C20_Witness ==
  /\ Applied("onBatchDelete")
  /\ task.ids = {4, 5}
  /\ {t.id : t \in Range(task.calls)} = {4}
  /\ RowIds(db) = RowIds(task.before) \ {4, 5, 6}

-----------------------------------------------------------------------------
\* The five operations that send a transactions-batch-update: batch edit,
\* batch delete, batch duplicate, unlink from schedule, and the locking of
\* the cleared rows at the end of a reconciliation.

\* Rows 1 and 3 are cleared and sum to the target -80; row 2 is linked to a
\* schedule; rows 4, 5, 6 are an uncleared split.
OpsDb ==
  <<Row(1, "a1", -50, TRUE, FALSE),
    [Row(2, "a1", 20, FALSE, FALSE) EXCEPT !.schedule = Some("s1")],
    Row(3, "a1", -30, TRUE, TRUE),
    Parent(4, "a1", -30, FALSE, FALSE),
    Child(5, Parent(4, "a1", -30, FALSE, FALSE), -10),
    Child(6, Parent(4, "a1", -30, FALSE, FALSE), -20)>>

InitOps == InitMounted(OpsDb)

\* onBatchUnlink up to its send.
BatchUnlink ==
  /\ CanBatch
  /\ \E ids \in Selections :
       /\ task' = [NoTask EXCEPT !.op = "onBatchUnlink", !.pc = "send",
                                 !.ids = ids, !.before = db,
                                 !.changes = unlinkChanges(ids)]
       /\ requests' = <<unlinkChanges(ids)>>
  /\ events' = events + 1
  /\ UNCHANGED <<phase, props, this, runners, timer, sends, awaiting, db>>

\* onReconcile, as one of the operations.
OpsReconcile == events < MaxBatches /\ Reconcile

\* onDoneReconciling, which may follow the last operation.
OpsDoneReconciling == events <= MaxBatches /\ DoneReconciling

NextOps ==
  \/ BatchEdit
  \/ BatchDelete
  \/ BatchDuplicate
  \/ BatchUnlink
  \/ OpsReconcile
  \/ OpsDoneReconciling
  \/ ReconciledAnswer
  \/ Confirm
  \/ Decline
  \/ SubmitField
  \/ SelectedAnswer
  \/ ClearedAnswer
  \/ LockFetchAnswer
  \/ BatchUpdateAnswer
  \/ RefetchAnswer
  \/ Deliver

SpecOps == InitOps /\ [][NextOps]_vars

\* The ids of the rows a request lists under `f`.
RequestIds(changes, f) ==
  IF f \in DOMAIN changes THEN {u.id : u \in Range(changes[f])} ELSE {}

\* The rows the running operation has processed are all in its request: the
\* rows an edit or the locking changed, the rows a delete removed with their
\* children, one new row for each row a duplicate fetched, the rows to
\* unlink.
WholeDiff ==
  LET changes == requests[1]
      fetched == fetchSelected(task.before, task.ids)
      value == IF task.name = "cleared" THEN clearedValue(fetched)
               ELSE task.value
      called == {t.id : t \in Range(task.calls)}
      lockable == Grouped(task.before,
                          LockableIds(task.before, props.accountId))
  IN CASE task.op = "onBatchEdit" ->
            /\ RequestIds(changes, "updated") =
                 {t.id : t \in {x \in Range(task.calls) :
                                  x[task.name] /= value}}
            /\ \A u \in Range(changes.updated) : u[task.name] = value
       [] task.op = "onBatchDelete" ->
            RequestIds(changes, "deleted") =
              {r.id : r \in {x \in Range(task.before) :
                               x.id \in called \/ x.parent_id \in called}}
       [] task.op = "onBatchDuplicate" ->
            Len(changes.added) = Len(fetched)
       [] task.op = "onBatchUnlink" ->
            RequestIds(changes, "updated") = task.ids
       [] task.op = "onDoneReconciling" ->
            RequestIds(changes, "updated") =
              {t.id : t \in {x \in Range(lockable) : ~x.reconciled}}

\* Some runner starts a fetch in this step.
FetchStarts ==
  \E r \in DOMAIN runners' :
    /\ runners'[r].inflight
    /\ r \in DOMAIN runners => ~runners[r].inflight

-----------------------------------------------------------------------------
\* Single-transaction changes made in the table: onTransactionsChange, the
\* save the table sends, and the refetch the table asks for after it.  Here a runner also holds its page data (`data`, the rows with
\* their fields) and the confirm transform registered with it (`confirm`).

MaxChanges == 2

ChangeDb ==
  <<Row(1, "a1", -50, TRUE, FALSE), Row(2, "a1", 20, FALSE, FALSE),
    Row(3, "a1", -5, TRUE, FALSE), Row(4, "a2", 7, FALSE, FALSE)>>

\* The rows a runner fetches for its query.
PageRows(d, query) ==
  LET InAccount(r) == r.account = query.acct
  IN SelectSeq(d, InAccount)

InitChange ==
  /\ phase = "mounted"
  /\ props = [accountId |-> "a1", accounts |-> Accounts,
              showBalances |-> FALSE]
  /\ this = [paged |-> 1, rootQuery |-> Query("a1"),
             currentQuery |-> Query("a1"),
             state |-> Merge(InitialState(FALSE),
                        PageState(PageRows(ChangeDb, Query("a1")),
                                  Len(PageRows(ChangeDb, Query("a1"))),
                                  FALSE, None))]
  /\ runners = [i \in {1} |->
                  [query |-> Query("a1"), isFiltered |-> FALSE,
                   subscribed |-> TRUE, inflight |-> FALSE,
                   data |-> PageRows(ChangeDb, Query("a1")),
                   confirm |-> None]]
  /\ timer = FALSE
  /\ sends = <<>>
  /\ awaiting = <<>>
  /\ db = ChangeDb
  /\ task = NoTask
  /\ requests = <<>>
  /\ events = 0

\* A transaction the table marks as deleted.
Deleted(t) ==
  [k \in DOMAIN t \cup {"_deleted"} |-> IF k = "_deleted" THEN TRUE ELSE t[k]]

IsDeleted(t) == "_deleted" \in DOMAIN t /\ t._deleted

\* onTransactionsChange keeping a deleted transaction in the page, replaced
\* like any other.
localTransformNeverRemoving(data, newTransaction) ==
  [i \in DOMAIN data |->
     IF data[i].id = newTransaction.id THEN newTransaction ELSE data[i]]

\* onTransactionsChange: the first function given to optimisticUpdate.
localTransform(data, newTransaction) ==
  IF IsDeleted(newTransaction)
  THEN LET Other(t) == t.id /= newTransaction.id
       IN SelectSeq(data, Other)
  ELSE [i \in DOMAIN data |->
          IF data[i].id = newTransaction.id THEN newTransaction ELSE data[i]]

\* paged.optimisticUpdate(localTransform, confirmTransform): the page data
\* becomes `local` at once; `confirmed`, what the confirm transform returns,
\* is kept until the next fetch of the runner lands.
optimisticUpdate(rs, id, local, confirmed) ==
  [rs EXCEPT ![id] = [@ EXCEPT !.data = local, !.confirm = Some(confirmed)]]

\* onTransactionsChange(newTransaction, data); the confirm transform returns
\* `data` whatever it is given.
onTransactionsChange(w, newTransaction, data) ==
  [w EXCEPT !.runners =
     optimisticUpdate(@, w.this.paged,
                      localTransform(@[w.this.paged].data, newTransaction),
                      data)]

\* The edits the table offers for a row.
Edits(t) == {[t EXCEPT !.payee = "p2"], [t EXCEPT !.cleared = ~@], Deleted(t)}

\* The save the table sends for a changed transaction.
saveChanges(newTransaction) ==
  IF IsDeleted(newTransaction)
  THEN [deleted |-> <<newTransaction>>]
  ELSE [updated |-> <<newTransaction>>]

\* The user changes a row in the table: the table calls
\* onTransactionsChange with the changed transaction and its own new list,
\* and sends the save.
TransactionsChange ==
  /\ phase = "mounted"
  /\ events < MaxChanges
  /\ \E t \in Range(runners[this.paged].data) :
       \E newTransaction \in Edits(t) :
         /\ Commit(Flush(onTransactionsChange(World, newTransaction,
               localTransform(this.state.transactions, newTransaction))))
         /\ requests' = Append(requests, saveChanges(newTransaction))
  /\ events' = events + 1
  /\ UNCHANGED <<phase, db, task>>

\* The data service has applied a save, and the table calls its onRefetch,
\* which is refetchTransactions.
SaveAnswer ==
  /\ requests /= <<>>
  /\ db' = batchUpdate(db, Head(requests))
  /\ requests' = Tail(requests)
  /\ Commit(Flush(refetchTransactions(World)))
  /\ UNCHANGED <<phase, events, task>>

\* An undo changes the amount of a row in the data service, and the
\* undo-event listener calls refetchTransactions.
RemoteChange ==
  /\ events < MaxChanges
  /\ \E i \in DOMAIN db :
       db' = [db EXCEPT ![i] = [@ EXCEPT !.amount = @ + 1]]
  /\ Commit(Flush(refetchTransactions(World)))
  /\ events' = events + 1
  /\ UNCHANGED <<phase, requests, task>>

\* A fetch of the runner lands: the fetched rows are its page data, the
\* registered confirm transform is dropped, and the callback given to
\* pagedQuery runs with them.
PageLands ==
  \E r \in DOMAIN runners :
    /\ runners[r].inflight
    /\ runners[r].subscribed
    /\ Commit(Flush(onData(
         [World EXCEPT !.runners[r] =
            [@ EXCEPT !.inflight = FALSE,
                      !.data = PageRows(db, runners[r].query),
                      !.confirm = None]],
         r, PageRows(db, runners[r].query))))
    /\ UNCHANGED <<phase, events, db, task, requests>>

NextChange ==
  \/ TransactionsChange
  \/ SaveAnswer
  \/ RemoteChange
  \/ PageLands

SpecChange == InitChange /\ [][NextChange]_vars

\* The page data of the runner the view holds.
PagedData == runners[this.paged].data

-----------------------------------------------------------------------------
\* Filtering: the composite predicate of applyFilters.

\* The arguments of the composite predicate that stand for condition c.
ArgsFor(args, c) == {k \in DOMAIN args : args[k].cond = c}

\* C23: a call of applyFilters with conditions sends for translation the
\* conditions without customName and no other; when the answer arrives,
\* the base query is the root query filtered by one predicate, under $or if
\* the combinator in force is `or` and under $and otherwise, in which every
\* condition stands exactly once: translated if it has no customName, by
\* its literal filter if it has one.
C23_CompositePredicate ==
  [][/\ \A i \in DOMAIN sends' :
          /\ Range(sends'[i].sent) = Range(sends'[i].conditions) \cap PlainConds
          /\ Len(sends'[i].sent) = Cardinality(Range(sends'[i].sent))
     /\ \A i \in DOMAIN sends :
          sends' = RemoveAt(sends, i) =>
            LET conditions == sends[i].conditions
                base == this'.currentQuery
            IN /\ base.acct = this.rootQuery.acct
               /\ Len(base.filters) = Len(this.rootQuery.filters) + 1
               /\ LET composite == base.filters[Len(base.filters)]
                  IN /\ composite.op =
                          IF this.state.conditionsOp = "or" THEN "$or"
                          ELSE "$and"
                     /\ Len(composite.args) = Len(conditions)
                     /\ \A c \in Range(conditions) :
                          /\ Cardinality(ArgsFor(composite.args, c)) = 1
                          /\ \A k \in ArgsFor(composite.args, c) :
                               composite.args[k].how =
                                 IF c \in CustomConds THEN "literal"
                                 ELSE "translated"]_vars

\* A condition without customName and one with a customName are applied:
\* the base query is filtered by the translated filter of the first and the
\* literal filter of the second.
C23_Witness ==
  /\ sends = <<>>
  /\ this.state.filters = <<"c1", "k1">>
  /\ this.currentQuery.filters =
       <<[kind |-> "conds", op |-> "$and",
          args |-> <<Translated("c1"), Literal("k1")>>]>>

-----------------------------------------------------------------------------
\* Filtering: the combinator.

\* The composite predicates of a query.
Composites(query) == {f \in Range(query.filters) : f.kind = "conds"}

\* C24: after onCondOpChange(value) has settled, the combinator in state is
\* `value`, the saved-filter reference has status `changed`, and the base
\* query and the query of the subscribed runner are filtered by a composite
\* predicate under the new combinator ($or for `or`, $and for `and`) and by
\* none under the old one.
C24_NewCombinator ==
  SettledAfter("onCondOpChange") =>
    LET key == IF task.value = "or" THEN "$or" ELSE "$and"
    IN /\ this.state.conditionsOp = task.value
       /\ this.state.filterId.status = "changed"
       /\ this.paged \in Live
       /\ \A query \in {this.currentQuery, runners[this.paged].query} :
            /\ Composites(query) /= {}
            /\ \A f \in Composites(query) : f.op = key

\* The combinator of two applied conditions was changed to `or`, and the
\* subscribed runner has the query filtered by both under $or.
C24_Witness ==
  /\ SettledAfter("onCondOpChange")
  /\ task.value = "or"
  /\ Len(this.state.filters) = 2
  /\ this.paged \in Live
  /\ \E f \in Composites(runners[this.paged].query) :
       f.op = "$or" /\ Len(f.args) = 2

-----------------------------------------------------------------------------
\* Filtering: the empty condition list.

\* The displayed rows that a filtered query fetched.
FilteredRows ==
  {k \in DOMAIN this.state.transactions :
     Composites(this.state.transactions[k].q) /= {}}

\* applyFilters([]) runs in this step: the filter list of the viewed
\* account becomes empty.
FiltersEmptied ==
  /\ this.state.filters /= <<>>
  /\ this'.state.filters = <<>>
  /\ props' = props

\* C25: the step in which applyFilters is called with an empty list leaves
\* no transactions and a count of 0 in state, the root and the base query
\* equal to the unfiltered root query of the account, and one subscribed
\* runner, which has that query; afterwards, while the list stays empty, no
\* step displays rows that a filtered query fetched.
C25_EmptyListResets ==
  [][/\ FiltersEmptied =>
          /\ this'.state.transactions = <<>>
          /\ this'.state.transactionCount = 0
          /\ this'.rootQuery = Query(props.accountId)
          /\ this'.currentQuery = Query(props.accountId)
          /\ Live' = {this'.paged}
          /\ runners'[this'.paged].query = Query(props.accountId)
          /\ ~runners'[this'.paged].isFiltered
     /\ (/\ this.state.filters = <<>>
         /\ this'.state.filters = <<>>
         /\ props' = props
         /\ FilteredRows = {}) => FilteredRows' = {}]_vars

\* The filter list has just been emptied while rows were displayed: no
\* transactions are displayed (and the view is not loading, as it is at a
\* mount or an account switch), and the runner of the root query is
\* fetching.
C25_Witness ==
  /\ phase = "mounted"
  /\ events = MaxEvents
  /\ ~this.state.loading
  /\ this.state.filters = <<>>
  /\ this.state.transactions = <<>>
  /\ this.state.transactionCount = 0
  /\ this.paged \in Live
  /\ runners[this.paged].inflight
  /\ runners[this.paged].query = Query(props.accountId)

-----------------------------------------------------------------------------
\* C26: the saved-filter reference has status `changed` only when a saved
\* filter is referenced, status `saved` only when a saved filter is
\* referenced, and while no saved filter is referenced (the handlers of
\* ad-hoc conditions and of the combinator never reference one) it is unset.
SavedFilterReferenced == this.state.filterId.id /= ""

C26_ReferenceStatus ==
  /\ this.state.filterId.status = "changed" => SavedFilterReferenced
  /\ this.state.filterId.status = "saved" => SavedFilterReferenced
  /\ ~SavedFilterReferenced => this.state.filterId = NoFilterId

\* C27: from the creation of the first runner at the end of mounting until
\* the view unmounts, exactly one runner is subscribed at every moment, a
\* pending debounced search included.
C27_AlwaysOneLiveRunner ==
  phase = "mounted" => Cardinality(Live) = 1

-----------------------------------------------------------------------------
\* The title of the view and the redirect of render.

SpecialIds == {"budgeted", "offbudget", "uncategorized"}

\* The values of the route's account id: a special id, none (""), or the id
\* of an account.
TitleIds == SpecialIds \cup {""} \cup Accounts

\* location.state of the route: undefined, or an object whose filterName is
\* undefined, empty or a name.
LocationStates ==
  {None} \cup {Some([filterName |-> f]) : f \in {None, Some(""), Some("Food")}}

AccountName(id) == IF id = "a1" THEN "Checking" ELSE "Savings"

\* accounts.find(account => account.id === accountId)
findAccount(accounts, accountId) ==
  IF accountId \in accounts
  THEN Some([id |-> accountId, name |-> AccountName(accountId)])
  ELSE None

\* A string or null/undefined as a condition.
Truthy(o) == IsSome(o) /\ The(o) /= ""

\* getAccountTitle without the special ids.
getAccountTitleOfAccountsOnly(w, account, id) ==
  LET filterName == IF IsSome(w.props.location.state)
                    THEN The(w.props.location.state).filterName
                    ELSE None
  IN IF Truthy(filterName) THEN filterName
     ELSE IF ~IsSome(account) THEN None
     ELSE Some(The(account).name)

\* getAccountTitle: the title, or None for null.
getAccountTitle(w, account, id) ==
  LET filterName == IF IsSome(w.props.location.state)
                    THEN The(w.props.location.state).filterName
                    ELSE None
  IN IF Truthy(filterName) THEN filterName
     ELSE IF ~IsSome(account)
     THEN CASE id = "budgeted" -> Some("Budgeted Accounts")
            [] id = "offbudget" -> Some("Off Budget Accounts")
            [] id = "uncategorized" -> Some("Uncategorized")
            [] id = "" -> Some("All Accounts")
            [] OTHER -> None
     ELSE Some(The(account).name)

\* render, up to its first return: the redirect, or the view.
render(w) ==
  LET account == findAccount(w.props.accounts, w.props.accountId)
      accountName == getAccountTitle(w, account, w.props.accountId)
  IN IF ~Truthy(accountName) /\ ~w.this.state.loading
     THEN "Navigate /accounts"
     ELSE "AccountView"

\* The view mounted on any route, with any list of accounts, before or after
\* its first page arrived.
InitTitle ==
  /\ phase = "mounted"
  /\ \E id \in TitleIds, accounts \in SUBSET Accounts,
        state \in LocationStates, loading \in BOOLEAN :
       /\ props = [accountId |-> id, accounts |-> accounts,
                   showBalances |-> FALSE, location |-> [state |-> state]]
       /\ this = [paged |-> 1, rootQuery |-> Query(id),
                  currentQuery |-> Query(id),
                  state |-> IF loading
                            THEN InitialState(FALSE)
                            ELSE Merge(InitialState(FALSE),
                                   PageState(RowsOf(ViewDb, Query(id)),
                                             Len(RowsOf(ViewDb, Query(id))),
                                             FALSE, None))]
       /\ runners = [i \in {1} |->
                       [query |-> Query(id), isFiltered |-> FALSE,
                        subscribed |-> TRUE, inflight |-> loading]]
  /\ timer = FALSE
  /\ sends = <<>>
  /\ awaiting = <<>>
  /\ db = ViewDb
  /\ task = NoTask
  /\ requests = <<>>
  /\ events = 0

\* React renders the component.
Render ==
  /\ phase = "mounted"
  /\ task' = [NoTask EXCEPT !.op = "render", !.value = render(World)]
  /\ UNCHANGED <<phase, props, this, runners, timer, sends, awaiting, db,
                 requests, events>>

\* The store hands the view another list of accounts (an account was created
\* or deleted): the account id is the same, so
\* UNSAFE_componentWillReceiveProps does nothing.
AccountsChange ==
  /\ phase = "mounted"
  /\ \E accounts \in SUBSET Accounts :
       /\ accounts /= props.accounts
       /\ props' = [props EXCEPT !.accounts = accounts]
  /\ UNCHANGED <<phase, this, runners, timer, sends, awaiting, db, task,
                 requests, events>>

NextTitle ==
  \/ Render
  \/ AccountsChange
  \/ Deliver

SpecTitle == InitTitle /\ [][NextTitle]_vars

FilterNameGiven ==
  /\ IsSome(props.location.state)
  /\ Truthy(The(props.location.state).filterName)

\* No account of the list has the route's id, no filter name is given, and
\* the id is neither special nor empty.
Unresolvable ==
  /\ props.accountId \notin props.accounts
  /\ ~FilterNameGiven
  /\ props.accountId \notin SpecialIds \cup {""}

\* C28: a render of a view whose account id cannot be resolved to a title
\* and that is not loading returns the redirect to /accounts; a render while
\* loading, or of a special id, never returns it.
C28_Redirect ==
  [][(task' /= task /\ task'.op = "render") =>
       /\ (Unresolvable /\ ~this.state.loading)
            => task'.value = "Navigate /accounts"
       /\ this.state.loading => task'.value /= "Navigate /accounts"
       /\ props.accountId \in SpecialIds
            => task'.value /= "Navigate /accounts"]_vars

\* The view of a deleted account redirected once its page had arrived.
C28_Witness ==
  /\ task.op = "render"
  /\ task.value = "Navigate /accounts"
  /\ Unresolvable
  /\ ~this.state.loading
  /\ ~runners[this.paged].inflight

-----------------------------------------------------------------------------
\* Batch operations whose data-service calls can fail.  The handlers await
\* runQuery and send without try/catch: a call that fails ends the handler
\* at its await.

\* The runQuery for the selected rows fails.
SelectedFails ==
  /\ task.pc = "fetch"
  /\ task' = [task EXCEPT !.pc = "failed"]
  /\ UNCHANGED <<phase, props, this, runners, timer, sends, awaiting, db,
                 requests, events>>

\* A handler that refetches whether or not its request succeeded.
BatchUpdateFailsThenRefetches ==
  /\ task.pc = "send"
  /\ Commit(Flush(refetchTransactions(World)))
  /\ task' = [task EXCEPT !.pc = "failed"]
  /\ UNCHANGED <<phase, db, requests, events>>

\* The transactions-batch-update fails: nothing of it was applied.
BatchUpdateFails ==
  /\ task.pc = "send"
  /\ task' = [task EXCEPT !.pc = "failed"]
  /\ UNCHANGED <<phase, props, this, runners, timer, sends, awaiting, db,
                 requests, events>>

NextFail ==
  \/ NextBatch
  \/ SelectedFails
  \/ BatchUpdateFails

SpecFail == InitBatch /\ [][NextFail]_vars

\* The view of an operation that failed: still working, showing the rows it
\* showed when the operation started, no fetch in flight, at most the one
\* request that was sent.
FailedView ==
  /\ this.state.workingHard
  /\ this.state.transactions =
       RowsOf(task.before, runners[this.paged].query)
  /\ \A r \in DOMAIN runners : ~runners[r].inflight
  /\ Len(requests) <= 1
  /\ db = task.before

-----------------------------------------------------------------------------
\* C30: a batch edit of the account field submits every requested row whose
\* account differs from the new value with the new account and reconciled
\* false, and once applied the row is stored so; a requested row whose
\* account already is the new value is not submitted with another
\* reconciled flag, and once applied it has the flag it had.
C30_AccountEditUnreconciles ==
  LET Moves(r) == r.id \in task.ids /\ r.account /= task.value
      Stays(r) == r.id \in task.ids /\ r.account = task.value
      Updates(r) == {u \in Range(task.changes.updated) : u.id = r.id}
  IN /\ (Sent("onBatchEdit") /\ task.name = "account") =>
          \A r \in Range(task.before) :
            /\ Moves(r) => /\ Updates(r) /= {}
                           /\ \A u \in Updates(r) :
                                u.account = task.value /\ ~u.reconciled
            /\ Stays(r) => \A u \in Updates(r) : u.reconciled = r.reconciled
     /\ (Applied("onBatchEdit") /\ task.name = "account") =>
          \A r \in Range(task.before) :
            /\ Moves(r) => /\ RowOf(db, r.id).account = task.value
                           /\ ~RowOf(db, r.id).reconciled
            /\ Stays(r) => RowOf(db, r.id).reconciled = r.reconciled

\* The reconciled row 3 was moved to the other account, the user having
\* confirmed, and is stored unreconciled.
C30_Witness ==
  /\ Applied("onBatchEdit")
  /\ task.name = "account"
  /\ task.value = "a2"
  /\ 3 \in task.ids
  /\ RowOf(task.before, 3).reconciled
  /\ RowOf(db, 3).account = "a2"
  /\ ~RowOf(db, 3).reconciled

-----------------------------------------------------------------------------
\* C31: once a filter change made while a sort is set has settled (here a
\* click on "clear filters" or a change of the combinator), the base query
\* and the query of the live runner are ordered by the current sort key,
\* then the previous one.
C31_FilterChangeKeepsSort ==
  ((SettledAfter("onClearFilters") \/ SettledAfter("onCondOpChange"))
     /\ this.state.sort.field /= "") =>
    /\ this.currentQuery.order = ExpectedOrder
    /\ this.paged \in Live
    /\ runners[this.paged].query.order = ExpectedOrder

-----------------------------------------------------------------------------
\* The DiscoverSchedules modal.  In its specification the variables hold:
\* props.schedules, the list `schedule/discover` found; props.selected, the
\* ids selected in the table; this.creating and this.modal; task, the
\* position of onCreate; requests, every call of the data service onCreate
\* has made, in order; db, the stored transactions and schedules.

MaxSchedules == 3

\* The conditions of a found schedule; the empty list translates to no
\* filter, and no transaction matches c1 and c2 together.
DiscoverConds == {<<>>, <<"c1">>, <<"c2">>, <<"c1", "c2">>}

DiscoverIds == 1..MaxSchedules

\* The lists schedule/discover can answer with.
Discovered ==
  UNION {{[k \in 1..n |-> [id |-> k, _conditions |-> cs[k]]] :
            cs \in [1..n -> DiscoverConds]} : n \in DiscoverIds}

DiscoverDb ==
  <<Row(1, "a1", -50, TRUE, FALSE), Row(2, "a1", -50, FALSE, FALSE),
    [Row(3, "a1", -30, FALSE, FALSE) EXCEPT !.payee = "p2"]>>

\* runQuery(q('transactions').filter({$and: filters}).select('id')): the
\* filter of c1 holds for the rows of payee p1, that of c2 for payee p2.
matchingTransactions(d, filters) ==
  LET Holds(r, f) == r.payee = (IF f.cond = "c1" THEN "p1" ELSE "p2")
      Matches(r) == \A f \in Range(filters) : Holds(r, f)
      rows == SelectSeq(d, Matches)
  IN [k \in DOMAIN rows |-> [id |-> rows[k].id]]

\* schedules.filter(s => selectedInst.items.has(s.id))
selectedSchedules(schedules, items) ==
  LET Has(sch) == sch.id \in items
  IN SelectSeq(schedules, Has)

Call(name, schedule, arg) == [name |-> name, of |-> schedule.id, arg |-> arg]

NoCreate ==
  [op |-> "", pc |-> "", i |-> 0, selected |-> <<>>, scheduleId |-> 0,
   filters |-> <<>>]

InitDiscover ==
  /\ phase = "mounted"
  /\ \E schedules \in Discovered :
       \E items \in SUBSET {sch.id : sch \in Range(schedules)} :
         props = [schedules |-> schedules, selected |-> items]
  /\ this = [creating |-> FALSE, modal |-> "open"]
  /\ runners = <<>>
  /\ timer = FALSE
  /\ sends = <<>>
  /\ awaiting = <<>>
  /\ db = [transactions |-> DiscoverDb, schedules |-> <<>>]
  /\ task = NoCreate
  /\ requests = <<>>
  /\ events = 0

DiscoverRest == UNCHANGED <<phase, props, runners, timer, sends, awaiting,
                            events>>

\* onCreate at the head of its loop, about to process selected[i]: the next
\* schedule/create is sent, or the loop is over, creating is reset and the
\* modal is popped.
onCreateLoop(t, i) ==
  IF i <= Len(t.selected)
  THEN /\ this' = [this EXCEPT !.creating = TRUE]
       /\ task' = [t EXCEPT !.pc = "create", !.i = i]
       /\ requests' = Append(requests,
                             Call("schedule/create", t.selected[i],
                                  t.selected[i]._conditions))
  ELSE /\ this' = [creating |-> FALSE, modal |-> "closed"]
       /\ task' = [t EXCEPT !.pc = "done", !.i = i]
       /\ requests' = requests

\* The click on "Create schedules" (disabled with nothing selected):
\* onCreate up to its first await.
ClickCreate ==
  /\ task.pc = ""
  /\ props.selected /= {}
  /\ onCreateLoop([NoCreate EXCEPT
                     !.op = "onCreate",
                     !.selected = selectedSchedules(props.schedules,
                                                    props.selected)], 1)
  /\ UNCHANGED db
  /\ DiscoverRest

\* schedule/create answers with the id of the schedule it stored; onCreate
\* asks for the filters of the schedule's conditions.
ScheduleCreated ==
  /\ task.pc = "create"
  /\ LET schedule == task.selected[task.i]
         scheduleId == Len(db.schedules) + 1
     IN /\ db' = [db EXCEPT !.schedules =
                    Append(@, [id |-> scheduleId,
                               conditions |-> schedule._conditions])]
        /\ task' = [task EXCEPT !.pc = "filters", !.scheduleId = scheduleId]
        /\ requests' = Append(requests,
                              Call("make-filters-from-conditions", schedule,
                                   schedule._conditions))
  /\ UNCHANGED this
  /\ DiscoverRest

\* onCreate querying and linking whatever the filters are.
DiscoverFiltersAnswerAlwaysLinking ==
  /\ task.pc = "filters"
  /\ LET schedule == task.selected[task.i]
         filters == makeFiltersFromConditions(schedule._conditions)
     IN /\ task' = [task EXCEPT !.pc = "query", !.filters = filters]
        /\ requests' = Append(requests, Call("query", schedule, filters))
        /\ UNCHANGED this
  /\ UNCHANGED db
  /\ DiscoverRest

\* make-filters-from-conditions answers: with filters onCreate queries the
\* matching transactions, without it goes on with the next schedule.
DiscoverFiltersAnswer ==
  /\ task.pc = "filters"
  /\ LET schedule == task.selected[task.i]
         filters == makeFiltersFromConditions(schedule._conditions)
     IN IF Len(filters) > 0
        THEN /\ task' = [task EXCEPT !.pc = "query", !.filters = filters]
             /\ requests' = Append(requests,
                                   Call("query", schedule, filters))
             /\ UNCHANGED this
        ELSE onCreateLoop(task, task.i + 1)
  /\ UNCHANGED db
  /\ DiscoverRest

\* The query answers: onCreate sends the update linking the transactions.
MatchingAnswer ==
  /\ task.pc = "query"
  /\ LET schedule == task.selected[task.i]
         transactions == matchingTransactions(db.transactions, task.filters)
         updated == [k \in DOMAIN transactions |->
                       [id |-> transactions[k].id,
                        schedule |-> Some(task.scheduleId)]]
     IN /\ task' = [task EXCEPT !.pc = "link"]
        /\ requests' = Append(requests,
                              Call("transactions-batch-update", schedule,
                                   updated))
  /\ UNCHANGED <<this, db>>
  /\ DiscoverRest

\* transactions-batch-update answers: the next schedule, or the end.
LinkAnswer ==
  /\ task.pc = "link"
  /\ db' = [db EXCEPT !.transactions =
              batchUpdate(@, [updated |-> requests[Len(requests)].arg])]
  /\ onCreateLoop(task, task.i + 1)
  /\ DiscoverRest

NextDiscover ==
  \/ ClickCreate
  \/ ScheduleCreated
  \/ DiscoverFiltersAnswer
  \/ MatchingAnswer
  \/ LinkAnswer

SpecDiscover == InitDiscover /\ [][NextDiscover]_vars

\* The calls of one service made so far, in order.
Calls(name) ==
  LET Named(c) == c.name = name
  IN SelectSeq(requests, Named)

Selected == selectedSchedules(props.schedules, props.selected)

Translates(schedule) == makeFiltersFromConditions(schedule._conditions) /= <<>>

\* What the calls made so far say, in every state: the schedules created are
\* the first selected ones in list order; a schedule has a link update only
\* if its conditions translate to a filter, and exactly one if they do and
\* the schedule is behind; the modal is open and `creating` set from the
\* click until the last selected schedule is behind.
DiscoverLog ==
  LET creates == Calls("schedule/create")
      links == Calls("transactions-batch-update")
      LinksOf(sch) == {k \in DOMAIN links : links[k].of = sch.id}
      Behind(k) == k < task.i \/ task.pc = "done"
  IN /\ Len(creates) <= Len(Selected)
     /\ \A k \in DOMAIN creates :
          /\ creates[k].of = Selected[k].id
          /\ creates[k].arg = Selected[k]._conditions
     /\ \A k \in DOMAIN Selected :
          /\ ~Translates(Selected[k]) => LinksOf(Selected[k]) = {}
          /\ (Translates(Selected[k]) /\ Behind(k))
               => Cardinality(LinksOf(Selected[k])) = 1
          /\ Behind(k) => k <= Len(creates)
     /\ \A k \in DOMAIN links : links[k].of \in props.selected
     /\ task.pc \notin {"", "done"} => this.creating /\ this.modal = "open"
     /\ (this.modal = "closed" \/ (task.pc /= "" /\ ~this.creating)) =>
          /\ task.pc = "done"
          /\ Len(creates) = Len(Selected)

Sends(name) == Len(requests') = Len(requests) + 1
               /\ requests'[Len(requests')].name = name

\* C32: onCreate creates exactly the selected schedules, in list order and
\* one at a time (a schedule/create is sent at the click or when the last
\* call of the schedule before has answered); the link update of a schedule
\* is sent after its schedule/create has answered, with the id it answered,
\* and exists if and only if the conditions translate to a filter; the modal
\* is closed and `creating` reset only after the last selected schedule.
C32_CreateSelectedInOrder ==
  [][/\ DiscoverLog'
     /\ Sends("schedule/create") =>
          \/ task.pc = ""
          \/ task.pc = "link"
          \/ task.pc = "filters" /\ ~Translates(task.selected[task.i])
     /\ Sends("transactions-batch-update") =>
          /\ task.pc = "query"
          /\ task.scheduleId = Len(db.schedules)
          /\ db.schedules[task.scheduleId].conditions =
               task.selected[task.i]._conditions
          /\ \A u \in Range(requests'[Len(requests')].arg) :
               u.schedule = Some(task.scheduleId)
     /\ (this'.modal = "closed" /\ this.modal = "open") =>
          /\ task.i = Len(Selected)
          /\ task.pc \in {"link", "filters"}
          /\ ~this'.creating]_vars

\* Three schedules were found and the first and the last selected: the
\* first was created and linked to the two transactions of payee p1, the
\* last, with no conditions, created and not linked; the modal is closed.
C32_Witness ==
  /\ task.pc = "done"
  /\ this.modal = "closed"
  /\ ~this.creating
  /\ props.selected = {1, 3}
  /\ Len(props.schedules) = 3
  /\ props.schedules[1]._conditions = <<"c1">>
  /\ props.schedules[3]._conditions = <<>>
  /\ Len(db.schedules) = 2
  /\ Len(Calls("transactions-batch-update")) = 1
  /\ db.transactions[1].schedule = Some(1)
  /\ db.transactions[2].schedule = Some(1)
  /\ db.transactions[3].schedule = None

-----------------------------------------------------------------------------
\* TitlebarProvider (Titlebar.tsx).  In its specification this.listeners is
\* listeners.current; props.subscriptions lists the subscribe calls made,
\* each with its listener and whether its disposer has been called;
\* requests holds the calls of listeners made by the last sendEvent.

MaxCalls == 4

\* The functions given to subscribe; listeners.current compares them by
\* identity.
Listeners == {"f", "g"}

TitlebarMessages == {"switch-budget-type"}

InitTitlebar ==
  /\ phase = "mounted"
  /\ props = [subscriptions |-> <<>>]
  /\ this = [listeners |-> <<>>]
  /\ runners = <<>>
  /\ timer = FALSE
  /\ sends = <<>>
  /\ awaiting = <<>>
  /\ db = <<>>
  /\ task = NoTask
  /\ requests = <<>>
  /\ events = 0

TitlebarRest == UNCHANGED <<phase, runners, timer, sends, awaiting, db>>

\* subscribe(listener)
subscribe(listeners, listener) == Append(listeners, listener)

\* The function subscribe returns, called.
disposer(listeners, listener) ==
  LET Other(func) == func /= listener
  IN SelectSeq(listeners, Other)

\* sendEvent(msg): the calls listeners.current.forEach makes.
sendEvent(listeners, msg) ==
  [k \in DOMAIN listeners |-> [listener |-> listeners[k], msg |-> msg]]

Subscribe ==
  /\ events < MaxCalls
  /\ \E listener \in Listeners :
       /\ this' = [this EXCEPT !.listeners = subscribe(@, listener)]
       /\ props' = [props EXCEPT !.subscriptions =
                      Append(@, [listener |-> listener, disposed |-> FALSE])]
  /\ task' = [NoTask EXCEPT !.op = "subscribe"]
  /\ requests' = <<>>
  /\ events' = events + 1
  /\ TitlebarRest

\* The disposer of the k-th subscribe call is called, for the first time or
\* again.
Dispose ==
  /\ events < MaxCalls
  /\ \E k \in DOMAIN props.subscriptions :
       /\ this' = [this EXCEPT !.listeners =
                     disposer(@, props.subscriptions[k].listener)]
       /\ props' = [props EXCEPT !.subscriptions[k].disposed = TRUE]
  /\ task' = [NoTask EXCEPT !.op = "disposer"]
  /\ requests' = <<>>
  /\ events' = events + 1
  /\ TitlebarRest

SendEvent ==
  /\ events < MaxCalls
  /\ \E msg \in TitlebarMessages :
       requests' = sendEvent(this.listeners, msg)
  /\ task' = [NoTask EXCEPT !.op = "sendEvent"]
  /\ events' = events + 1
  /\ UNCHANGED <<this, props>>
  /\ TitlebarRest

NextTitlebar ==
  \/ Subscribe
  \/ Dispose
  \/ SendEvent

SpecTitlebar == InitTitlebar /\ [][NextTitlebar]_vars

\* The listeners of the subscriptions whose disposer has not been called, in
\* subscription order.
Subscribed ==
  LET Undisposed(sub) == ~sub.disposed
      subs == SelectSeq(props.subscriptions, Undisposed)
  IN [k \in DOMAIN subs |-> subs[k].listener]

\* C33: the registry holds exactly the subscriptions not yet disposed, in
\* subscription order (a disposer removes its own subscription only, and
\* nothing when called again), and sendEvent calls exactly those, once per
\* subscription and in that order.
C33_Registry ==
  /\ this.listeners = Subscribed
  /\ task.op = "sendEvent" =>
       /\ Len(requests) = Len(Subscribed)
       /\ \A k \in DOMAIN requests : requests[k].listener = Subscribed[k]

-----------------------------------------------------------------------------
\* SyncButton (Titlebar.tsx).  In its specification this holds the state
\* hooks syncing and syncState and `closure`, the cloudFileId the listener
\* of the mount effect closed over; props.cloudFileId is the value in the
\* store; awaiting lists the timeouts set and not yet run, oldest first;
\* task is the last sync-event and whether a sync is running.

MaxSyncEvents == 4

SyncTypes == {"start", "applied", "success", "error", "unauthorized"}
SyncSubtypes == {"", "network", "out-of-sync"}

NoSyncEvent ==
  [op |-> "", pc |-> "idle", type |-> "", subtype |-> "",
   syncDisabled |-> FALSE]

\* The component mounted: the effect has run once and registered its
\* listener, for a file that is in the cloud or not.
InitSync ==
  /\ phase = "mounted"
  /\ \E cloudFileId \in {None, Some("file1")} :
       /\ props = [cloudFileId |-> cloudFileId]
       /\ this = [syncing |-> FALSE, syncState |-> None,
                  closure |-> [cloudFileId |-> cloudFileId]]
  /\ runners = <<>>
  /\ timer = FALSE
  /\ sends = <<>>
  /\ awaiting = <<>>
  /\ db = <<>>
  /\ task = NoSyncEvent
  /\ requests = <<>>
  /\ events = 0

SyncRest == UNCHANGED <<phase, runners, timer, sends, db, requests>>

\* The listener given to listen('sync-event', ...): the state after the
\* event's updates.
onSyncEvent(t, type, subtype, syncDisabled) ==
  LET t1 == IF type = "start"
            THEN [t EXCEPT !.syncing = TRUE, !.syncState = None]
            ELSE t
  IN IF type = "error"
     THEN IF subtype = "network"
          THEN [t1 EXCEPT !.syncState = Some("offline")]
          ELSE IF ~IsSome(t.closure.cloudFileId)
          THEN [t1 EXCEPT !.syncState = Some("local")]
          ELSE [t1 EXCEPT !.syncState = Some("error")]
     ELSE IF type = "success"
     THEN [t1 EXCEPT !.syncState =
             IF syncDisabled THEN Some("disabled") ELSE None]
     ELSE t1

\* The timeouts pending after the listener has handled an event.
onSyncEventTimeouts(pending, type) ==
  IF type = "start" THEN pending ELSE Append(pending, "setSyncing(false)")

\* The data service pushes a sync-event: a sync starts when none is
\* running, and a running one reports and ends.
SyncEvent ==
  /\ events < MaxSyncEvents
  /\ \E type \in SyncTypes, subtype \in SyncSubtypes,
        syncDisabled \in BOOLEAN :
       /\ type = "start" <=> task.pc = "idle"
       /\ subtype /= "" => type = "error"
       /\ syncDisabled => type = "success"
       /\ this' = onSyncEvent(this, type, subtype, syncDisabled)
       /\ awaiting' = onSyncEventTimeouts(awaiting, type)
       /\ task' = [op |-> "sync-event",
                   pc |-> IF type \in {"start", "applied"}
                          THEN "syncing" ELSE "idle",
                   type |-> type, subtype |-> subtype,
                   syncDisabled |-> syncDisabled]
  /\ events' = events + 1
  /\ UNCHANGED props
  /\ SyncRest

\* 200 ms after it was set, the oldest timeout runs setSyncing(false).
SyncTimeout ==
  /\ awaiting /= <<>>
  /\ awaiting' = Tail(awaiting)
  /\ this' = [this EXCEPT !.syncing = FALSE]
  /\ UNCHANGED <<props, task, events>>
  /\ SyncRest

\* The file is registered with the server, or removed from it: the store's
\* cloudFileId changes and the component renders again; the effect, with
\* its empty dependency list, does not run again.
CloudFileChange ==
  /\ events < MaxSyncEvents
  /\ props' = [props EXCEPT !.cloudFileId =
                 IF IsSome(@) THEN None ELSE Some("file1")]
  /\ events' = events + 1
  /\ UNCHANGED <<this, awaiting, task>>
  /\ SyncRest

NextSync ==
  \/ SyncEvent
  \/ SyncTimeout
  \/ CloudFileChange

SpecSync == InitSync /\ [][NextSync]_vars

\* C34: a sync-event of type start sets syncState to null; error sets it to
\* offline with subtype network, otherwise to local when the file has no
\* cloudFileId, otherwise to error; success sets it to disabled with
\* syncDisabled and to null without; any other type leaves it; and nothing
\* but a sync-event changes it.
C34_SyncState ==
  [][/\ (events' /= events /\ props' = props) =>
          this'.syncState =
            CASE task'.type = "start" -> None
              [] task'.type = "error" ->
                   IF task'.subtype = "network" THEN Some("offline")
                   ELSE IF ~IsSome(props.cloudFileId) THEN Some("local")
                   ELSE Some("error")
              [] task'.type = "success" ->
                   IF task'.syncDisabled THEN Some("disabled") ELSE None
              [] OTHER -> this.syncState
     /\ ~(events' /= events /\ props' = props) =>
          this'.syncState = this.syncState]_vars

\* C40: while the last sync-event is a start, syncing is true, whatever
\* timeouts of earlier events were pending at the start; and once the
\* timeouts of all events have run after an event that is not a start,
\* syncing is false.
C40_SyncingIndicator ==
  /\ task.type = "start" => this.syncing
  /\ (task.type \notin {"", "start"} /\ awaiting = <<>>) => ~this.syncing

-----------------------------------------------------------------------------
\* Two conditions added from the filter menu, the second while the first may
\* still await its translation.  task.calls lists the conditions given to
\* onApplyFilter.

MaxApplies == 2

InitApply == InitMounted(ViewDb)

\* The user adds a condition not added before: onApplyFilter(cond).
ApplyAnother ==
  /\ phase = "mounted"
  /\ Len(task.calls) < MaxApplies
  /\ \E cond \in Conds \ Range(task.calls) :
       /\ Commit(Flush(onApplyFilter(World, cond)))
       /\ task' = [task EXCEPT !.op = "onApplyFilter",
                               !.calls = Append(@, cond)]
  /\ events' = events + 1
  /\ UNCHANGED <<phase, db, requests>>

NextApply ==
  \/ ApplyAnother
  \/ FiltersAnswer
  \/ Deliver

SpecApply == InitApply /\ [][NextApply]_vars

\* C35: once two onApplyFilter calls with different conditions have settled
\* (both translations answered, the page delivered), the condition list
\* holds both conditions, and the composite predicate of the base query and
\* of the live runner's query has an argument for each.
C35_BothFiltersEffective ==
  (Len(task.calls) = 2 /\ Settled
     /\ \A r \in DOMAIN runners : ~runners[r].inflight) =>
    /\ Range(task.calls) \subseteq Range(this.state.filters)
    /\ this.paged \in Live
    /\ \A query \in {this.currentQuery, runners[this.paged].query} :
         \A c \in Range(task.calls) :
           \E f \in Composites(query) : ArgsFor(f.args, c) /= {}

-----------------------------------------------------------------------------
\* C36: after the view is unmounted no runner is subscribed, whatever was
\* pending at the unmount (a debounced search, an applyFilters awaiting its
\* translation) and resumes afterwards.
C36_NoRunnerAfterUnmount ==
  phase = "unmounted" => Live = {}

-----------------------------------------------------------------------------
\* Nothing is pending: no data-service call, no debounce, no balance query,
\* and the live runner has delivered its page.
Quiescent ==
  /\ phase = "mounted"
  /\ Settled
  /\ awaiting = <<>>
  /\ \A r \in DOMAIN runners : ~runners[r].inflight

\* C37: whenever the view is quiescent, transactionsFiltered is true exactly
\* when the search text or the condition list is not empty.
C37_FilteredFlag ==
  Quiescent =>
    (this.state.transactionsFiltered <=>
       (this.state.search /= "" \/ this.state.filters /= <<>>))

-----------------------------------------------------------------------------
\* The view while componentDidMount is suspended.  render() hands
\* this.onSearch to the header from the first render on, while this.paged is
\* still the null of the constructor; the first runner is made by the
\* fetchTransactions that follows `await this.props.initiallyLoadPayees()`.
\* task.pc = "threw" records a handler ended by the TypeError of a call on
\* null, task.op the handler.

\* A keystroke in the search field, mounted or not yet: onSearch calls
\* this.paged.unsubscribe() before anything else.
EarlyKeystroke ==
  /\ phase \in {"mounting", "mounted"}
  /\ events < MaxEvents
  /\ \E value \in SearchTexts :
       IF this.paged = 0
       THEN /\ task' = [NoTask EXCEPT !.op = "onSearch", !.pc = "threw",
                                      !.value = value]
            /\ events' = events + 1
            /\ UNCHANGED <<phase, props, this, runners, timer, sends,
                           awaiting, db, requests>>
       ELSE Handled(onSearch(World, value))

\* A filter applied from the header, mounted or not yet: applyFilters and
\* updateQuery check this.paged before they use it.
EarlyApplyFilter ==
  /\ phase \in {"mounting", "mounted"}
  /\ events < MaxEvents
  /\ Len(sends) < MaxSends
  /\ \E cond \in Conds :
       /\ cond \in PlainConds => cond \notin Range(this.state.filters)
       /\ Handled(onApplyFilter(World, cond))

NextMount ==
  \/ MountDone
  \/ EarlyKeystroke
  \/ EarlyApplyFilter
  \/ SearchTimerFires
  \/ FiltersAnswer
  \/ Deliver
  \/ BalanceAnswer

SpecMount == InitView /\ [][NextMount]_vars

\* C38: a handler that calls a method of the runner without a null check runs
\* only when a runner exists: none of them ends by a call on null.
C38_RunnerExists ==
  task.pc /= "threw"

-----------------------------------------------------------------------------
\* Batch operations among search keystrokes.  The data service answers every
\* call, a fetch of a subscribed runner completes and the debounce timer
\* fires: these steps are fair; what the user does is not.

MaxStarts == 2

CanStart ==
  /\ phase = "mounted"
  /\ events < MaxStarts

\* What is selected: a plain row, a reconciled row, a split parent.
StartSelections == {{1}, {3}, {4}}

\* A keystroke in the search field, a batch operation suspended or not.
KeystrokeAmongBatches ==
  /\ CanStart
  /\ \E value \in SearchTexts : Handled(onSearch(World, value))

\* onBatchEdit('cleared', ids): onChange runs at once, up to its runQuery.
ToggleCleared ==
  /\ CanStart
  /\ Idle
  /\ \E ids \in StartSelections :
       StartWorking([NoTask EXCEPT !.op = "onBatchEdit", !.name = "cleared",
                                   !.ids = ids, !.before = db])
  /\ requests' = <<>>
  /\ events' = events + 1
  /\ UNCHANGED <<phase, db>>

\* onBatchDelete(ids) up to the runQuery of checkForReconciledTransactions.
DeleteSelected ==
  /\ CanStart
  /\ Idle
  /\ \E ids \in StartSelections :
       Started([NoTask EXCEPT !.op = "onBatchDelete", !.pc = "guard",
                              !.ids = ids, !.before = db])

DataServiceAnswers ==
  \/ ReconciledAnswer
  \/ SelectedAnswer
  \/ BatchUpdateAnswer
  \/ RefetchAnswer

NextWorking ==
  \/ KeystrokeAmongBatches
  \/ ToggleCleared
  \/ DeleteSelected
  \/ Confirm
  \/ Decline
  \/ DataServiceAnswers
  \/ SearchTimerFires
  \/ Deliver

SpecWorking == InitBatch /\ [][NextWorking]_vars

FairWorking ==
  /\ SpecWorking
  /\ WF_vars(DataServiceAnswers)
  /\ WF_vars(SearchTimerFires)
  /\ WF_vars(Deliver)

\* C39: whenever workingHard is true it is false again later, whatever the
\* state the batch operation was started in.
C39_WorkingHardEnds ==
  this.state.workingHard ~> ~this.state.workingHard

\* The refetch of a batch operation found the runner unsubscribed by a
\* keystroke whose debounced query has not run yet.
C39_Witness ==
  /\ this.state.workingHard
  /\ task.pc = "refetch"
  /\ ~runners[this.paged].subscribed
  /\ timer

====
